---- MODULE Spec2Model ----
(***************************************************************************)
(* A model of src/src/graph.rs: the graph builder (Graph::new), the        *)
(* Node/Tensor/Form data model, the node compiler (Node::compile) and the  *)
(* form-transition builders that write auxiliary operators to the Target.  *)
(*                                                                         *)
(* Strings are sequences of tokens (each token a fragment of the string);  *)
(* the separators the parsers look for, ":" and "_", are tokens of their   *)
(* own, and numbers are written digit by digit.  Indices are 0-based as in *)
(* the source; a TLA+ sequence s holds the element of index i at s[i + 1]. *)
(***************************************************************************)
EXTENDS Integers, Sequences, FiniteSets, Bags, TLC

VARIABLES
    defs,       \* the slice of NodeDef handed to Graph::new
    queue,      \* Graph::new's work queue
    nodes,      \* Graph.nodes
    name_dict,  \* Graph.name_dict
    target,     \* the Target: pb.node, devices, links, paths
    pc,         \* where the program is: "new", "built", "compile", "done", "aborted", ...
    cur,        \* position of the compile pass: node index and replica index
    last,       \* what the most recent call observed (the call, its result)
    ring,       \* the locals of an all_reduce_ring call in progress
    history     \* the builder calls the strategy made itself, in order

vars == <<defs, queue, nodes, name_dict, target, pc, cur, last, ring, history>>

(***************************************************************************)
(* Bounds of the model.                                                    *)
(***************************************************************************)
\* longest device list of a form
MaxNdev == 3

\* the device table of the target the scenarios compile for (Target.devices)
Devices == <<<<"/device:GPU:", "0">>, <<"/device:GPU:", "1">>>>
NumDevices == Len(Devices)

(***************************************************************************)
(* Strings.                                                                *)
(***************************************************************************)
Digits == <<"0", "1", "2", "3", "4", "5", "6", "7", "8", "9">>

\* usize::to_string / "{}" of a number: its decimal digits
RECURSIVE ToStr(_)
ToStr(n) == IF n < 10 THEN <<Digits[n + 1]>>
            ELSE ToStr(n \div 10) \o <<Digits[(n % 10) + 1]>>

IsDigit(t) == \E d \in 1..10 : Digits[d] = t
DigitVal(t) == (CHOOSE d \in 1..10 : Digits[d] = t) - 1

\* str::parse::<usize>(): None (here -1) for an empty or non-numeric string
RECURSIVE ParseNat(_)
ParseNat(s) ==
    IF s = <<>> \/ \E k \in 1..Len(s) : ~IsDigit(s[k]) THEN -1
    ELSE IF Len(s) = 1 THEN DigitVal(s[1])
    ELSE ParseNat(SubSeq(s, 1, Len(s) - 1)) * 10 + DigitVal(s[Len(s)])

\* str::find(c): the 1-based position of the first token c, 0 when there is none
Find(s, c) == IF \E k \in 1..Len(s) : s[k] = c
              THEN CHOOSE k \in 1..Len(s) : s[k] = c /\ \A j \in 1..(k - 1) : s[j] # c
              ELSE 0

\* parse_input: "name" -> (name, 0), "name:k" -> (name, k)
parse_input(x) ==
    LET i == Find(x, ":") IN
    IF i = 0 THEN [name |-> x, index |-> 0]
    ELSE [name |-> SubSeq(x, 1, i - 1), index |-> ParseNat(SubSeq(x, i + 1, Len(x)))]

starts_with_caret(x) == Len(x) > 0 /\ x[1] = "^"

(***************************************************************************)
(* Attribute maps (NodeDef.attr).                                          *)
(***************************************************************************)
NoAttr == [k \in {} |-> 0]

AttrInsert(attr, k, v) == [x \in (DOMAIN attr) \cup {k} |-> IF x = k THEN v ELSE attr[x]]

\* Vec::resize(index + 1, 0) followed by sizes[index] = size
ListSet(sizes, index, size) ==
    [k \in 1..(IF Len(sizes) <= index THEN index + 1 ELSE Len(sizes)) |->
        IF k = index + 1 THEN size
        ELSE IF k <= Len(sizes) THEN sizes[k] ELSE 0]

set_input_size(node, index, size) ==
    LET sizes == IF "_tge_input_sizes" \in DOMAIN node.attr
                 THEN node.attr["_tge_input_sizes"] ELSE <<>>
    IN [node EXCEPT !.attr = AttrInsert(node.attr, "_tge_input_sizes", ListSet(sizes, index, size))]

set_origin(node, origin) == [node EXCEPT !.attr = AttrInsert(node.attr, "_tge_origin", origin)]

set_belong_to(node, belong_to) ==
    [node EXCEPT !.attr = AttrInsert(node.attr, "_tge_belong_to", belong_to)]

set_form(node, form_code) == [node EXCEPT !.attr = AttrInsert(node.attr, "_tge_form", form_code)]

\* NodeDef::new()
NewNodeDef == [name |-> <<>>, op |-> "", input |-> <<>>, device |-> "", attr |-> NoAttr]

\* get_dtype: the data type of an operator's output, "panic" when none can be found
get_dtype(x) ==
    IF x.op \in {"Greater", "GreaterEqual"} THEN "DT_BOOL"
    ELSE IF x.op \in {"Shape", "ShapeN"}
         THEN (IF "out_type" \in DOMAIN x.attr THEN x.attr["out_type"] ELSE "DT_INT32")
    ELSE IF x.op = "Cast"
         THEN (IF "DstT" \in DOMAIN x.attr THEN x.attr["DstT"] ELSE "panic")
    ELSE IF "dtype" \in DOMAIN x.attr THEN x.attr["dtype"]
    ELSE IF "T" \in DOMAIN x.attr THEN x.attr["T"]
    ELSE "panic"

(***************************************************************************)
(* Form.                                                                   *)
(***************************************************************************)
MkForm(kind, devices) == [kind |-> kind, devices |-> devices]

is_full(form) == form.kind = "Full"
is_part(form) == form.kind = "Part"
ndev(form) == Len(form.devices)
valid(form) == form.devices # <<>>

RECURSIVE CodeDevices(_)
CodeDevices(devices) ==
    IF devices = <<>> THEN <<>>
    ELSE <<"_">> \o ToStr(devices[1]) \o CodeDevices(Tail(devices))

\* Form::code
code(form) == <<(IF is_full(form) THEN "full" ELSE "part")>> \o CodeDevices(form.devices)

(***************************************************************************)
(* Graph::new and Node::new.                                               *)
(***************************************************************************)
\* the name an input reference waits for (graph.rs 24-28)
InputName(input) == IF starts_with_caret(input) THEN Tail(input) ELSE parse_input(input).name

\* the scan of graph.rs 23-34 finds an input whose producer is not admitted yet
HasMissingInput(node_def, dict) ==
    \E k \in 1..Len(node_def.input) : InputName(node_def.input[k]) \notin DOMAIN dict

RECURSIVE NodeInputs(_, _)
NodeInputs(input, dict) ==
    IF input = <<>> THEN <<>>
    ELSE IF starts_with_caret(input[1]) THEN NodeInputs(Tail(input), dict)
    ELSE <<[id |-> dict[parse_input(input[1]).name],
            index |-> parse_input(input[1]).index,
            kind |-> "Full"]>> \o NodeInputs(Tail(input), dict)

RECURSIVE NodeControls(_, _)
NodeControls(input, dict) ==
    IF input = <<>> THEN <<>>
    ELSE IF starts_with_caret(input[1])
         THEN <<dict[Tail(input[1])]>> \o NodeControls(Tail(input), dict)
    ELSE NodeControls(Tail(input), dict)

\* Node::new
NewNode(dict, raw_node) ==
    [raw_node |-> raw_node,
     controls |-> NodeControls(raw_node.input, dict),
     inputs   |-> NodeInputs(raw_node.input, dict),
     outputs  |-> <<>>,
     form     |-> MkForm("Full", <<>>)]

\* queue.push_back(node_def)
PushBackDropped(q, node_def) == q
\* a push that puts the definition back where it was popped from
PushBackToFront(q, node_def) == <<node_def>> \o q
PushBack(q, node_def) == Append(q, node_def)

\* name_dict.insert(name, nodes.len())
DictInsertOffByOne(dict, name, index) == AttrInsert(dict, name, index + 1)
DictInsert(dict, name, index) == AttrInsert(dict, name, index)

\* one iteration of the 'outer loop that re-enqueues the popped definition
Defer ==
    /\ pc = "new"
    /\ queue # <<>>
    /\ HasMissingInput(Head(queue), name_dict)
    /\ queue' = PushBack(Tail(queue), Head(queue))
    /\ UNCHANGED <<history, defs, nodes, name_dict, target, pc, cur, last, ring>>

\* one iteration of the 'outer loop that admits the popped definition
Admit ==
    /\ pc = "new"
    /\ queue # <<>>
    /\ ~HasMissingInput(Head(queue), name_dict)
    /\ LET node == NewNode(name_dict, Head(queue)) IN
        /\ name_dict' = DictInsert(name_dict, node.raw_node.name, Len(nodes))
        /\ nodes' = Append(nodes, node)
    /\ queue' = Tail(queue)
    /\ UNCHANGED <<history, defs, target, pc, cur, last, ring>>

\* the queue is empty: the loop ends and Graph::new returns g
ReturnGraph ==
    /\ pc = "new"
    /\ queue = <<>>
    /\ pc' = "built"
    /\ UNCHANGED <<history, defs, queue, nodes, name_dict, target, cur, last, ring>>

(***************************************************************************)
(* Inputs of Graph::new: operator definitions with unique names.           *)
(***************************************************************************)
\* the attributes of an input operator: its dtype and the shapes of its two outputs
\* (a dimension of -1 is unknown)
RawAttr == [T |-> "DT_FLOAT", _output_shapes |-> <<<<-1, 3>>, <<6, 2>>>>]

Def(name, op, input) ==
    [name |-> <<name>>, op |-> op, input |-> input, device |-> "", attr |-> RawAttr]

\* a chain with an output port and a control edge
GraphChain == {Def("A", "MatMul", <<>>),
               Def("B", "MatMul", << <<"A", ":", "1">>, <<"^", "A">> >>),
               Def("C", "Add", << <<"B">>, <<"A">> >>)}
\* a diamond
GraphDiamond == {Def("A", "MatMul", <<>>),
                 Def("B", "Relu", << <<"A">> >>),
                 Def("C", "Relu", << <<"A", ":", "1">> >>),
                 Def("D", "Add", << <<"B">>, <<"C">>, <<"^", "A">> >>)}
\* data edges acyclic, but the control edge closes a cycle
GraphControlCycle == {Def("A", "MatMul", << <<"^", "B">> >>),
                      Def("B", "Relu", << <<"A">> >>),
                      Def("C", "Relu", <<>>)}
\* a cycle of data edges, and a definition outside it
GraphDataCycle == {Def("A", "Merge", << <<"B">> >>),
                   Def("B", "NextIteration", << <<"A">> >>),
                   Def("C", "Relu", <<>>),
                   Def("D", "Relu", << <<"A">> >>)}
\* a reference to a name no definition has
GraphDangling == {Def("A", "MatMul", << <<"X">> >>),
                  Def("B", "Relu", <<>>)}

InputGraphs == {GraphChain, GraphDiamond, GraphControlCycle, GraphDataCycle, GraphDangling}

\* every order in which the definitions of S can be presented
Orders(S) == {s \in [1..Cardinality(S) -> S] : \A i, j \in 1..Cardinality(S) : i # j => s[i] # s[j]}

EmptyTarget == [pb      |-> <<>>,
                devices |-> Devices,
                links   |-> <<100>>,
                paths   |-> [p \in 1..(NumDevices * NumDevices) |-> <<0>>]]

NoCall == [op |-> "none"]
NoRing == [phase |-> "none"]

InitNew ==
    /\ defs \in UNION {Orders(G) : G \in InputGraphs}
    /\ queue = defs
    /\ nodes = <<>>
    /\ name_dict = NoAttr
    /\ target = EmptyTarget
    /\ pc = "new"
    /\ cur = [node |-> 0, replica |-> 0]
    /\ last = NoCall
    /\ history = <<>>
    /\ ring = NoRing

NextNew == Defer \/ Admit \/ ReturnGraph

SpecNew == InitNew /\ [][NextNew]_vars

\* the loop is a sequential program: while an iteration is possible, one is taken
SpecNewFair == SpecNew /\ WF_vars(NextNew)

(***************************************************************************)
(* Properties of Graph::new.                                               *)
(***************************************************************************)
DefNames(D) == {D[k].name : k \in 1..Len(D)}
DataRefs(d) == {parse_input(d.input[k]).name : k \in {j \in 1..Len(d.input) : ~starts_with_caret(d.input[j])}}
CtrlRefs(d) == {Tail(d.input[k]) : k \in {j \in 1..Len(d.input) : starts_with_caret(d.input[j])}}
DefSet(D) == {D[k] : k \in 1..Len(D)}

\* a finite graph has a cycle iff some non-empty set of its nodes has, for each
\* member, a predecessor in the set
DataCyclic(D) ==
    \E S \in (SUBSET DefSet(D)) \ {{}} : \A d \in S : \E e \in S : e.name \in DataRefs(d)
AnyCyclic(D) ==
    \E S \in (SUBSET DefSet(D)) \ {{}} :
        \A d \in S : \E e \in S : e.name \in DataRefs(d) \cup CtrlRefs(d)
\* every referenced name has a definition
Closed(D) == \A d \in DefSet(D) : DataRefs(d) \cup CtrlRefs(d) \subseteq DefNames(D)
UniqueNames(D) == \A i, j \in 1..Len(D) : D[i].name = D[j].name => i = j

AdmittedOnce ==
    /\ Len(nodes) = Len(defs)
    /\ \A k \in 1..Len(defs) :
          Cardinality({j \in 1..Len(nodes) : nodes[j].raw_node = defs[k]}) = 1

\* C3: at every iteration of the work-queue loop and on return, every data-input
\* triple of the node at index k names a producer index smaller than k, and
\* name_dict maps the name of every admitted node to that node's own index.
C3_InputsEarlier ==
    pc \in {"new", "built"} =>
        \A k \in 1..Len(nodes) :
            /\ \A i \in 1..Len(nodes[k].inputs) : nodes[k].inputs[i].id < k - 1
            /\ nodes[k].raw_node.name \in DOMAIN name_dict
            /\ name_dict[nodes[k].raw_node.name] = k - 1

\* the loop returned a graph whose last node has data inputs, built from
\* definitions that were presented with a consumer before its producer
C3_Witness ==
    /\ pc = "built"
    /\ Len(nodes) >= 3
    /\ nodes[Len(nodes)].inputs # <<>>
    /\ \E k \in 1..Len(defs) : defs[k] # nodes[k].raw_node

\* C4 as stated: uniquely named definitions with acyclic data edges, in any
\* order: the loop terminates having admitted every definition exactly once.
\* (Read in the claim's favour: every referenced name has a definition.)
C4_DataAcyclicTerminates ==
    (UniqueNames(defs) /\ ~DataCyclic(defs) /\ Closed(defs))
        => <>(pc = "built" /\ AdmittedOnce)

\* C4 amended: the loop terminates, every definition admitted exactly once, when
\* data and control edges together are acyclic and every referenced name is defined.
C4_AcyclicClosedTerminates ==
    (UniqueNames(defs) /\ ~AnyCyclic(defs) /\ Closed(defs)) => <>(pc = "built" /\ AdmittedOnce)

\* the loop returned with every definition admitted although some were deferred
C4_Witness ==
    /\ pc = "built"
    /\ ~AnyCyclic(defs) /\ Closed(defs)
    /\ AdmittedOnce
    /\ \E k \in 1..Len(defs) : defs[k] # nodes[k].raw_node

\* the names a set of names reaches in at most n more steps along data and control edges
RECURSIVE Reach(_, _)
Reach(names, n) ==
    IF n = 0 THEN names
    ELSE Reach(names \cup UNION {DataRefs(e) \cup CtrlRefs(e) : e \in {x \in DefSet(defs) : x.name \in names}},
               n - 1)
\* the names a definition depends on, directly or not
Upstream(d) == Reach(DataRefs(d) \cup CtrlRefs(d), Len(defs))
OnCycle(d) == d.name \in Upstream(d)
\* a definition on or downstream of a cycle or of a name no definition has
Stuck(d) ==
    \E n \in Upstream(d) \cup {d.name} :
        \/ n \notin DefNames(defs)
        \/ \E e \in DefSet(defs) : e.name = n /\ OnCycle(e)
Admitted(d) == \E k \in 1..Len(nodes) : nodes[k].raw_node = d
\* every definition the input graphs hold
AllDefs == UNION InputGraphs

\* C25: when the input list holds a cycle or a reference to a name no definition
\* has, Graph::new never returns and reports no error; every definition that
\* does not depend on the cycle or the missing name is eventually admitted;
\* every definition on or downstream of it is never admitted and is popped
\* (and re-enqueued at the tail) again and again, forever.
C25_CycleLoopsForever ==
    /\ (\E d \in DefSet(defs) : Stuck(d)) => [](pc = "new")
    /\ (\E d \in DefSet(defs) : Stuck(d)) =>
            <>(\A d \in DefSet(defs) : ~Stuck(d) => Admitted(d))
    /\ [](\A d \in DefSet(defs) : Stuck(d) => ~Admitted(d))
    /\ \A d \in AllDefs :
            (d \in DefSet(defs) /\ Stuck(d)) =>
                /\ []<>(queue # <<>> /\ Head(queue) = d /\ HasMissingInput(d, name_dict))
                /\ []<>(queue # <<>> /\ queue[Len(queue)] = d)
\* the loop goes on with only stuck definitions queued, a free one admitted
\* after a stuck one was deferred
C25_Witness ==
    /\ pc = "new"
    /\ queue # <<>>
    /\ \A k \in 1..Len(queue) : Stuck(queue[k])
    /\ nodes # <<>>
    /\ Stuck(defs[1])
    /\ Len(queue) >= 2 /\ queue[Len(queue)] = defs[1]

(***************************************************************************)
(* Node and Tensor.  The operations below work on a "world" w: the graph's *)
(* nodes, the target, and whether the program has panicked.  Each returns  *)
(* the world it leaves and its return value.                               *)
(***************************************************************************)
World(ns, tg) == [nodes |-> ns, target |-> tg, panic |-> FALSE]
Ret(w, ret) == [w |-> w, ret |-> ret]
\* an assertion, an unwrap or an index out of range fails: the program unwinds
Panic(w) == [w |-> [w EXCEPT !.panic = TRUE], ret |-> <<>>]

\* Tensor::new
NewTensor(index) == [index |-> index, forms |-> NoAttr]

\* Node::get_output: grows the output list until it holds the port
get_output(ns, id, index) ==
    LET outs == ns[id + 1].outputs IN
    IF Len(outs) > index THEN ns
    ELSE [ns EXCEPT ![id + 1].outputs =
            [k \in 1..(index + 1) |-> IF k <= Len(outs) THEN outs[k] ELSE NewTensor(k - 1)]]

\* Node::replica
replica(node, index) == node.raw_node.name \o <<"/replica", "_">> \o ToStr(index)

\* Node::replicated: "None", "Some(false)", "Some(true)"
replicated(node) ==
    IF ndev(node.form) = 0 THEN "None"
    ELSE IF ndev(node.form) = 1 THEN "Some(false)" ELSE "Some(true)"

\* a make_node that leaves _tge_belong_to out
make_nodeNoBelong(node, op) == [NewNodeDef EXCEPT !.op = op, !.name = node.raw_node.name]
\* Node::make_node
make_node(node, op) ==
    set_belong_to([NewNodeDef EXCEPT !.op = op, !.name = node.raw_node.name], node.raw_node.name)

\* Tensor::original_name
original_name(node, index) ==
    IF index = 0 THEN node.raw_node.name ELSE node.raw_node.name \o <<":">> \o ToStr(index)

RECURSIVE Product(_)
Product(shape) == IF shape = <<>> THEN 1 ELSE shape[1] * Product(Tail(shape))

\* Tensor::get_shape: the dims of _output_shapes[index], or empty when a dim is unknown
get_shape(node, index) ==
    LET dims == node.raw_node.attr["_output_shapes"][index + 1] IN
    IF \E k \in 1..Len(dims) : dims[k] < 0 THEN <<>> ELSE dims

\* Tensor::get_size
get_size(node, index) == Product(get_shape(node, index)) * 4

\* target.devices[id] is in range
DeviceOk(w, id) == id < Len(w.target.devices)
DeviceOf(w, id) == w.target.devices[id + 1]

\* a push that puts the operator in front
PushFront(w, node) == [w EXCEPT !.target.pb = <<node>> \o @]
\* target.pb.node.push(node)
Push(w, node) == [w EXCEPT !.target.pb = Append(w.target.pb, node)]

\* self.forms.contains_key(form), self.forms[form], self.forms.insert(form, names)
Cached(ns, id, index, form) ==
    /\ Len(ns[id + 1].outputs) > index
    /\ form \in DOMAIN ns[id + 1].outputs[index + 1].forms
CacheGet(ns, id, index, form) == ns[id + 1].outputs[index + 1].forms[form]
CacheInsert(w, id, index, form, names) ==
    [w EXCEPT !.nodes[id + 1].outputs[index + 1].forms =
        AttrInsert(w.nodes[id + 1].outputs[index + 1].forms, form, names)]

\* the attributes of a scalar int32 Const holding 0 (the axis or dim operand)
ConstZero(node) ==
    [node EXCEPT !.attr = AttrInsert(AttrInsert(node.attr, "dtype", "DT_INT32"), "value",
                                     [dtype |-> "DT_INT32", tensor_shape |-> <<>>, int_val |-> <<0>>])]

\* name += "/<index>_<to.code()>/<suffix>"
AuxNameNoPort(node, index, to, suffix) ==
    node.raw_node.name \o <<"/">> \o code(to) \o suffix
AuxName(node, index, to, suffix) ==
    node.raw_node.name \o <<"/">> \o ToStr(index) \o <<"_">> \o code(to) \o suffix

\* format!("{}:{}", name, i)
WithPort(name, i) == name \o <<":">> \o ToStr(i)

\* set_input_size for inputs 0..n-1
RECURSIVE SetInputSizes(_, _, _)
SetInputSizes(node, n, size) ==
    IF n = 0 THEN node ELSE set_input_size(SetInputSizes(node, n - 1, size), n - 1, size)

\* the subtraction loop of resplit: the gcd of two positive numbers
RECURSIVE Gcd(_, _)
\* a loop that stops at the smaller of the two
GcdMin(a, b) == IF a < b THEN a ELSE b
Gcd(a, b) == IF a = b THEN a ELSE IF a > b THEN Gcd(a - b, b) ELSE Gcd(a, b - a)

\* slice::chunks(size)
RECURSIVE Chunks(_, _)
\* chunks of one element each
ChunksOfOne(s, size) == [k \in 1..Len(s) |-> <<s[k]>>]
Chunks(s, size) ==
    IF s = <<>> THEN <<>>
    ELSE IF Len(s) <= size THEN <<s>>
    ELSE <<SubSeq(s, 1, size)>> \o Chunks(SubSeq(s, size + 1, Len(s)), size)

\* Iterator::position: the 0-based index of the first x in s, -1 for None
Position(s, x) == Find(s, x) - 1

(***************************************************************************)
(* Tensor::as_form and the form-transition builders.  The tensor is output *)
(* `index` of node `id`.  Where the source binds a value and goes on, the  *)
(* model hands the value to an operator that holds the rest of the body.   *)
(***************************************************************************)
RECURSIVE as_form(_, _, _, _)

\* a scalar int32 Const holding 0 (an axis or a dim operand), made by make_node
ConstNode(node, name, device) ==
    ConstZero([make_node(node, "Const") EXCEPT !.name = name, !.device = device])

\* the AddN of aggregate_sum (graph.rs 278-286)
AddNNode(node, index, from, to, device, inputs) ==
    SetInputSizes([make_node(node, "AddN") EXCEPT
                      !.name = AuxName(node, index, to, <<"/aux_sum">>),
                      !.device = device,
                      !.input = inputs,
                      !.attr = AttrInsert(AttrInsert(@, "N", ndev(from)), "T", get_dtype(node.raw_node))],
                  ndev(from), get_size(node, index) \div ndev(from))

\* graph.rs 288-290
SumEmit(w, addn, to) == Ret(Push(w, addn), [k \in 1..ndev(to) |-> addn.name])

\* graph.rs 283-290, r being what as_form(from) returned
SumRest(r, node, index, from, to, device) ==
    IF r.w.panic THEN Panic(r.w)
    ELSE SumEmit(r.w, AddNNode(node, index, from, to, device, r.ret), to)

\* Tensor::aggregate_sum
aggregate_sum(w, id, index, from, to) ==
    IF ~(valid(from) /\ valid(to) /\ is_part(from) /\ is_full(to)) THEN Panic(w)
    ELSE IF ~DeviceOk(w, to.devices[1]) THEN Panic(w)
    ELSE IF get_dtype(w.nodes[id + 1].raw_node) = "panic" THEN Panic(w)
    ELSE SumRest(as_form(w, id, index, from), w.nodes[id + 1], index, from, to,
                 DeviceOf(w, to.devices[1]))

\* the ConcatV2 of aggregate_cat and of resplit (graph.rs 308-318, 395-405)
ConcatNode(node, name, device, inputs, axis_name, n, size) ==
    SetInputSizes([make_node(node, "ConcatV2") EXCEPT
                      !.name = name,
                      !.device = device,
                      !.input = Append(inputs, axis_name),
                      !.attr = AttrInsert(AttrInsert(AttrInsert(@, "N", n),
                                                     "T", get_dtype(node.raw_node)),
                                          "Tidx", "DT_INT32")],
                  n, size)

\* the result of aggregate_cat: vec![concat.name; to.ndev()]
CatResultFromLen(name, from, to) == [k \in 1..ndev(from) |-> name]
CatResult(name, from, to) == [k \in 1..ndev(to) |-> name]

\* the two pushes that end aggregate_cat (graph.rs 321-322)
PushConcatFirst(w, axis, concat) == Push(Push(w, concat), axis)
PushAxisConcat(w, axis, concat) == Push(Push(w, axis), concat)

\* graph.rs 320-323
CatEmit(w, axis, concat, from, to) ==
    Ret(PushAxisConcat(w, axis, concat), CatResult(concat.name, from, to))

\* graph.rs 311-323, r being what as_form(from) returned
CatRest(r, node, index, from, to, device) ==
    IF r.w.panic THEN Panic(r.w)
    ELSE IF get_dtype(node.raw_node) = "panic" THEN Panic(r.w)
    ELSE CatEmit(r.w,
                 ConstNode(node, AuxName(node, index, to, <<"/aux_concat/axis">>), device),
                 ConcatNode(node, AuxName(node, index, to, <<"/aux_concat/concat">>), device,
                            r.ret, AuxName(node, index, to, <<"/aux_concat/axis">>),
                            ndev(from), get_size(node, index) \div ndev(from)),
                 from, to)

\* Tensor::aggregate_cat
aggregate_cat(w, id, index, from, to) ==
    IF ~(valid(from) /\ valid(to) /\ is_part(from) /\ is_full(to)) THEN Panic(w)
    ELSE IF ~DeviceOk(w, to.devices[1]) THEN Panic(w)
    ELSE CatRest(as_form(w, id, index, from), w.nodes[id + 1], index, from, to,
                 DeviceOf(w, to.devices[1]))

\* every device of `to` reads replica 0
BroadcastIndexZero(from, device_id) == 0
\* the index into raw that a device of `to` reads (graph.rs 331)
BroadcastIndex(from, device_id) ==
    IF Position(from.devices, device_id) >= 0 THEN Position(from.devices, device_id) ELSE 0

\* graph.rs 330-332, r being what as_form(node.form) returned
BroadcastRest(r, from, to) ==
    IF r.w.panic THEN Panic(r.w)
    ELSE IF \E k \in 1..ndev(to) : BroadcastIndex(from, to.devices[k]) >= Len(r.ret) THEN Panic(r.w)
    ELSE Ret(r.w, [k \in 1..ndev(to) |-> r.ret[BroadcastIndex(from, to.devices[k]) + 1]])

\* Tensor::replicate_broadcast
replicate_broadcast(w, id, index, from, to) ==
    IF ~(valid(from) /\ valid(to) /\ is_full(from) /\ is_full(to)) THEN Panic(w)
    ELSE BroadcastRest(as_form(w, id, index, w.nodes[id + 1].form), from, to)

\* the Split of replicate_split and of resplit (graph.rs 350-357, 423-430)
SplitNode(node, name, device, dim_name, input, num_split, size) ==
    set_input_size([make_node(node, "Split") EXCEPT
                       !.name = name,
                       !.device = device,
                       !.input = <<dim_name, input>>,
                       !.attr = AttrInsert(AttrInsert(@, "T", get_dtype(node.raw_node)),
                                           "num_split", num_split)],
                   1, size)

\* graph.rs 359-362
SplitEmit(w, dim, split, n) ==
    Ret(Push(Push(w, dim), split), [k \in 1..n |-> WithPort(split.name, k - 1)])

\* graph.rs 354-362, r being what as_form(from) returned
SplitRest(r, node, index, from, to, device) ==
    IF r.w.panic THEN Panic(r.w)
    ELSE IF r.ret = <<>> THEN Panic(r.w)
    ELSE IF get_dtype(node.raw_node) = "panic" THEN Panic(r.w)
    ELSE SplitEmit(r.w,
                   ConstNode(node, AuxName(node, index, to, <<"/aux_split/dim">>), device),
                   SplitNode(node, AuxName(node, index, to, <<"/aux_split/split">>), device,
                             AuxName(node, index, to, <<"/aux_split/dim">>), r.ret[1],
                             ndev(to), get_size(node, index)),
                   ndev(to))

\* Tensor::replicate_split
replicate_split(w, id, index, from, to) ==
    IF ~(valid(from) /\ valid(to) /\ is_full(from) /\ is_part(to)) THEN Panic(w)
    ELSE IF ~DeviceOk(w, from.devices[1]) THEN Panic(w)
    ELSE SplitRest(as_form(w, id, index, from), w.nodes[id + 1], index, from, to,
                   DeviceOf(w, from.devices[1]))

\* "/aux_resplit_<i>/<sub>"
ResplitSuffix(i, sub) == <<"/aux_resplit", "_">> \o ToStr(i) \o <<sub>>

\* the (dest, result) pair of one chunk put before those of the later chunks
ConsPlaced(dest, name, rest) ==
    IF rest.w.panic THEN rest
    ELSE Ret(rest.w, <<[dest |-> dest, name |-> name]>> \o rest.ret)

\* the first closure of resplit (graph.rs 381-411), from chunk i on: one Const
\* and one ConcatV2 per chunk; returns the (dest, name) pairs collected
RECURSIVE ResplitConcats(_, _, _, _, _, _, _)
ResplitConcats(w, node, index, from, to, chunks, i) ==
    IF i >= Len(chunks) THEN Ret(w, <<>>)
    ELSE IF i * Len(chunks[i + 1]) >= ndev(from) THEN Panic(w)
    ELSE IF ~DeviceOk(w, from.devices[i * Len(chunks[i + 1]) + 1]) THEN Panic(w)
    ELSE IF get_dtype(node.raw_node) = "panic" THEN Panic(w)
    ELSE ConsPlaced(
            from.devices[i * Len(chunks[i + 1]) + 1],
            AuxName(node, index, to, ResplitSuffix(i, "/concat")),
            ResplitConcats(
                Push(Push(w, ConstNode(node, AuxName(node, index, to, ResplitSuffix(i, "/concat_axis")),
                                       DeviceOf(w, from.devices[i * Len(chunks[i + 1]) + 1]))),
                     ConcatNode(node, AuxName(node, index, to, ResplitSuffix(i, "/concat")),
                                DeviceOf(w, from.devices[i * Len(chunks[i + 1]) + 1]),
                                chunks[i + 1],
                                AuxName(node, index, to, ResplitSuffix(i, "/concat_axis")),
                                Len(chunks[i + 1]),
                                get_size(node, index) \div ndev(from))),
                node, index, from, to, chunks, i + 1))

\* the names one Split of resplit produces, put before those of the later ones
ConsNamesAfter(names, rest) == IF rest.w.panic THEN rest ELSE Ret(rest.w, rest.ret \o names)
ConsNames(names, rest) == IF rest.w.panic THEN rest ELSE Ret(rest.w, names \o rest.ret)

\* the second closure of resplit (graph.rs 411-439), from pair i on: one Const
\* and one Split per (concat, device chunk) pair; returns the names produced
RECURSIVE ResplitSplits(_, _, _, _, _, _, _, _)
ResplitSplits(w, node, index, to, gcd, concats, devchunks, i) ==
    IF i >= Len(concats) \/ i >= Len(devchunks) THEN Ret(w, <<>>)
    ELSE IF ~DeviceOk(w, concats[i + 1].dest) THEN Panic(w)
    ELSE IF get_dtype(node.raw_node) = "panic" THEN Panic(w)
    ELSE ConsNames(
            [k \in 1..(ndev(to) \div gcd) |->
                WithPort(AuxName(node, index, to, ResplitSuffix(i, "/split")), k - 1)],
            ResplitSplits(
                Push(Push(w, ConstNode(node, AuxName(node, index, to, ResplitSuffix(i, "/split_dim")),
                                       DeviceOf(w, concats[i + 1].dest))),
                     SplitNode(node, AuxName(node, index, to, ResplitSuffix(i, "/split")),
                               DeviceOf(w, concats[i + 1].dest),
                               AuxName(node, index, to, ResplitSuffix(i, "/split_dim")),
                               concats[i + 1].name,
                               Len(devchunks[i + 1]),
                               get_size(node, index) \div gcd)),
                node, index, to, gcd, concats, devchunks, i + 1))

\* graph.rs 411-439, cs being what the first closure collected
ResplitRest(cs, node, index, to, gcd) ==
    IF cs.w.panic THEN Panic(cs.w)
    ELSE ResplitSplits(cs.w, node, index, to, gcd, cs.ret, Chunks(to.devices, ndev(to) \div gcd), 0)

\* graph.rs 381-411, r being what as_form(from) returned
ResplitChunks(r, node, index, from, to, gcd) ==
    IF r.w.panic THEN Panic(r.w)
    ELSE ResplitRest(ResplitConcats(r.w, node, index, from, to,
                                    Chunks(r.ret, ndev(from) \div gcd), 0),
                     node, index, to, gcd)

\* Tensor::resplit
resplit(w, id, index, from, to) ==
    IF ~(valid(from) /\ valid(to) /\ is_part(from) /\ is_part(to)) THEN Panic(w)
    ELSE ResplitChunks(as_form(w, id, index, from), w.nodes[id + 1], index, from, to,
                       Gcd(ndev(from), ndev(to)))

\* the names of a tensor in its node's own form (graph.rs 254)
OwnNamesNoPort(node, index, form) == [k \in 1..ndev(form) |-> replica(node, k - 1)]
OwnNames(node, index, form) == [k \in 1..ndev(form) |-> WithPort(replica(node, k - 1), index)]

\* the dispatch on (form.kind, node_kind) (graph.rs 256-262)
DispatchSum(w, id, index, form) ==
    IF is_full(form) /\ is_full(w.nodes[id + 1].form)
        THEN replicate_broadcast(w, id, index, w.nodes[id + 1].form, form)
    ELSE IF is_part(form) /\ is_full(w.nodes[id + 1].form)
        THEN replicate_split(w, id, index, w.nodes[id + 1].form, form)
    ELSE IF is_full(form) /\ is_part(w.nodes[id + 1].form)
        THEN aggregate_sum(w, id, index, w.nodes[id + 1].form, form)
    ELSE resplit(w, id, index, w.nodes[id + 1].form, form)
Dispatch(w, id, index, form) ==
    IF is_full(form) /\ is_full(w.nodes[id + 1].form)
        THEN replicate_broadcast(w, id, index, w.nodes[id + 1].form, form)
    ELSE IF is_part(form) /\ is_full(w.nodes[id + 1].form)
        THEN replicate_split(w, id, index, w.nodes[id + 1].form, form)
    ELSE IF is_full(form) /\ is_part(w.nodes[id + 1].form)
        THEN aggregate_cat(w, id, index, w.nodes[id + 1].form, form)
    ELSE resplit(w, id, index, w.nodes[id + 1].form, form)

\* the names computed on a cache miss (graph.rs 253-263)
ComputeNames(w, id, index, form) ==
    IF form = w.nodes[id + 1].form THEN Ret(w, OwnNames(w.nodes[id + 1], index, form))
    ELSE Dispatch(w, id, index, form)

\* self.forms.insert(form.clone(), names) (graph.rs 265), r being the names computed
InsertNames(r, id, index, form) ==
    IF r.w.panic THEN Panic(r.w)
    ELSE Ret(CacheInsert(r.w, id, index, form, r.ret), r.ret)

\* the test that opens as_form: the form is not in the cache yet (graph.rs 252)
CacheMissAlways(w, id, index, form) == TRUE
CacheMiss(w, id, index, form) == ~Cached(w.nodes, id, index, form)

\* Tensor::as_form
as_form(w, id, index, form) ==
    IF w.panic THEN Ret(w, <<>>)
    ELSE IF CacheMiss(w, id, index, form)
        THEN InsertNames(ComputeNames(w, id, index, form), id, index, form)
    ELSE Ret(w, CacheGet(w.nodes, id, index, form))

(***************************************************************************)
(* Node::compile and Graph::compile.                                       *)
(***************************************************************************)
\* the size recorded for an input (graph.rs 172-175)
InputSizeByInputKind(self, kind, size) ==
    IF kind = "Full" THEN size ELSE size \div ndev(self.form)
InputSize(self, kind, size) ==
    IF self.form.kind = "Full" THEN size ELSE size \div ndev(self.form)

\* the form a consumer requests of an input (graph.rs 176)
RequestedFormOwnKind(self, kind) == MkForm(self.form.kind, self.form.devices)
RequestedForm(self, kind) == MkForm(kind, self.form.devices)

\* what one as_form call of the compile pass was asked and what it did
CallRecord(w1, r, id, index, form) ==
    [id |-> id, index |-> index, form |-> form,
     hit |-> Cached(w1.nodes, id, index, form),
     ret |-> r.ret,
     before |-> w1.target.pb, after |-> r.w.target.pb]

Linked(w, node, calls) == [w |-> w, ret |-> node, calls |-> calls]
ConsCall(call, rest) == [rest EXCEPT !.calls = <<call>> \o rest.calls]

RECURSIVE LinkInputs(_, _, _, _, _)

\* graph.rs 176-177 for input i, r being what as_form returned: the name of the
\* replica's input, then the inputs after it
LinkRest(w1, r, self_id, sized, replica_index, i, inp, form) ==
    IF r.w.panic \/ replica_index >= Len(r.ret)
    THEN Linked([r.w EXCEPT !.panic = TRUE], sized, <<>>)
    ELSE ConsCall(CallRecord(w1, r, inp.id, inp.index, form),
                  LinkInputs(r.w, self_id,
                             [sized EXCEPT !.input = Append(@, r.ret[replica_index + 1])],
                             replica_index, i + 1))

\* graph.rs 171-176 for input i, w1 being the world once get_output has run
LinkOne(w1, self, self_id, node, replica_index, i, inp) ==
    LinkRest(w1,
             as_form(w1, inp.id, inp.index, RequestedForm(self, inp.kind)),
             self_id,
             set_input_size(node, i, InputSize(self, inp.kind, get_size(w1.nodes[inp.id + 1], inp.index))),
             replica_index, i, inp, RequestedForm(self, inp.kind))

\* step 2 of Node::compile, from input i on: sets the input sizes of `node`,
\* requests each input in the form wanted and collects the names for the replica.
\* Returns the world, the edited node, and a record of each as_form call made.
LinkInputs(w, self_id, node, replica_index, i) ==
    IF i >= Len(w.nodes[self_id + 1].inputs) THEN Linked(w, node, <<>>)
    ELSE LinkOne([w EXCEPT !.nodes = get_output(@, w.nodes[self_id + 1].inputs[i + 1].id,
                                                 w.nodes[self_id + 1].inputs[i + 1].index)],
                 w.nodes[self_id + 1], self_id, node, replica_index, i,
                 w.nodes[self_id + 1].inputs[i + 1])

\* step 3 of Node::compile: the replicas of every control dependency
RECURSIVE ControlInputs(_, _)
ControlInputsFirstOnly(ns, controls) ==
    IF controls = <<>> THEN <<>>
    ELSE [k \in 1..(IF ndev(ns[controls[1] + 1].form) > 0 THEN 1 ELSE 0) |->
            replica(ns[controls[1] + 1], k - 1)]
         \o ControlInputs(ns, Tail(controls))
ControlInputs(ns, controls) ==
    IF controls = <<>> THEN <<>>
    ELSE [k \in 1..ndev(ns[controls[1] + 1].form) |-> replica(ns[controls[1] + 1], k - 1)]
         \o ControlInputs(ns, Tail(controls))

\* steps 3 and 4 of Node::compile, linked being what step 2 returned
CompileRest(linked, self) ==
    IF linked.w.panic THEN [w |-> linked.w, calls |-> <<>>]
    ELSE [w |-> Push(linked.w, [linked.ret EXCEPT
                                    !.input = @ \o ControlInputs(linked.w.nodes, self.controls)]),
          calls |-> linked.calls]

\* step 1 of Node::compile: the replica's name, device, origin and form (graph.rs 163-167)
ReplicaNode(w, self, replica_index) ==
    set_form(set_origin([self.raw_node EXCEPT
                            !.name = replica(self, replica_index),
                            !.device = DeviceOf(w, self.form.devices[replica_index + 1]),
                            !.input = <<>>],
                        self.raw_node.name),
             code(self.form))

\* one iteration of the loop of Node::compile: the replica `replica_index` of node self_id
CompileOne(w, self_id, replica_index) ==
    IF ~DeviceOk(w, w.nodes[self_id + 1].form.devices[replica_index + 1])
    THEN [w |-> [w EXCEPT !.panic = TRUE], calls |-> <<>>]
    ELSE CompileRest(LinkInputs(w, self_id, ReplicaNode(w, w.nodes[self_id + 1], replica_index),
                                replica_index, 0),
                     w.nodes[self_id + 1])

\* the state a step of the compile pass leaves
CompileStep(r) ==
    /\ nodes' = r.w.nodes
    /\ target' = r.w.target
    /\ pc' = IF r.w.panic THEN "aborted" ELSE "compile"
    /\ cur' = IF r.w.panic THEN cur ELSE [cur EXCEPT !.replica = cur.replica + 1]
    /\ last' = [op |-> "compile", node |-> cur.node, replica |-> cur.replica, calls |-> r.calls]

\* Node::compile emits the next replica of the current node
CompileReplica ==
    /\ pc = "compile"
    /\ cur.node < Len(nodes)
    /\ cur.replica < ndev(nodes[cur.node + 1].form)
    /\ CompileStep(CompileOne(World(nodes, target), cur.node, cur.replica))
    /\ UNCHANGED <<history, defs, queue, name_dict, ring>>

\* Node::compile returns; Graph::compile moves to the next node
NextNode ==
    /\ pc = "compile"
    /\ cur.node < Len(nodes)
    /\ cur.replica >= ndev(nodes[cur.node + 1].form)
    /\ cur' = [node |-> cur.node + 1, replica |-> 0]
    /\ UNCHANGED <<history, defs, queue, nodes, name_dict, target, pc, last, ring>>

\* Graph::compile returns
CompileDone ==
    /\ pc = "compile"
    /\ cur.node >= Len(nodes)
    /\ pc' = "done"
    /\ UNCHANGED <<history, defs, queue, nodes, name_dict, target, cur, last, ring>>

(***************************************************************************)
(* The state a compile pass starts from: the graph Graph::new built, each  *)
(* node placed by the strategy (put_on_devices, form.kind, input kinds).   *)
(***************************************************************************)
\* the whole loop of Graph::new
RECURSIVE BuildLoop(_, _, _)
BuildLoop(q, ns, dict) ==
    IF q = <<>> THEN [nodes |-> ns, name_dict |-> dict]
    ELSE IF HasMissingInput(Head(q), dict) THEN BuildLoop(PushBack(Tail(q), Head(q)), ns, dict)
    ELSE BuildLoop(Tail(q), Append(ns, NewNode(dict, Head(q))),
                   DictInsert(dict, Head(q).name, Len(ns)))

\* what a call that panicked leaves in place of its result
Panicked == [panic |-> TRUE]
\* put_on_devices without its assertion
put_on_devicesNoAssert(node, devices) == [node EXCEPT !.form.devices = @ \o devices]
\* Node::put_on_devices; Panicked when the assertion fails
put_on_devices(node, devices) ==
    IF replicated(node) # "None" THEN Panicked
    ELSE [node EXCEPT !.form.devices = @ \o devices]

\* sorted device lists of at most MaxNdev devices; the empty one is a node never placed
DeviceLists == {d \in UNION {[1..n -> 0..(NumDevices - 1)] : n \in 0..MaxNdev} :
                    \A k \in 1..(Len(d) - 1) : d[k] <= d[k + 1]}
Kinds == {"Full", "Part"}

\* the kind the strategy wants of every input of a node
SetInputKinds(inputs, input_kind) == [k \in 1..Len(inputs) |-> [inputs[k] EXCEPT !.kind = input_kind]]

\* the strategy's placement of one node: devices, the kind of its form, the kind of its inputs
Place(node, devices, kind, input_kind) ==
    [(IF devices = <<>> THEN node ELSE put_on_devices(node, devices)) EXCEPT
        !.form.kind = kind,
        !.inputs = SetInputKinds(@, input_kind)]

\* the definitions compiled: B reads A:1 and waits for A; C reads B and A:1
CompiledDefs == <<Def("A", "MatMul", <<>>),
                  Def("B", "MatMul", << <<"A", ":", "1">>, <<"^", "A">> >>),
                  Def("C", "Add", << <<"B">>, <<"A", ":", "1">> >>)>>

\* the graph of CompiledDefs, placed: B and C share their devices
PlacedGraph(g, da, db, ka, kb, kc, ib, ic) ==
    /\ nodes = <<Place(g.nodes[1], da, ka, "Full"),
                 Place(g.nodes[2], db, kb, ib),
                 Place(g.nodes[3], db, kc, ic)>>
    /\ name_dict = g.name_dict

Init ==
    /\ defs = CompiledDefs
    /\ queue = <<>>
    /\ \E da, db \in DeviceLists, ka, kb, kc, ib, ic \in Kinds :
        PlacedGraph(BuildLoop(defs, <<>>, NoAttr), da, db, ka, kb, kc, ib, ic)
    /\ target = EmptyTarget
    /\ pc = "compile"
    /\ cur = [node |-> 0, replica |-> 0]
    /\ last = NoCall
    /\ history = <<>>
    /\ ring = NoRing

Next == CompileReplica \/ NextNode \/ CompileDone

Spec == Init /\ [][Next]_vars

(***************************************************************************)
(* Properties of the compile pass.                                         *)
(***************************************************************************)
pb == target.pb
IsPrefix(a, b) == Len(a) <= Len(b) /\ SubSeq(b, 1, Len(a)) = a
\* the positions of pb holding an operator of that name
Named(name) == {k \in 1..Len(pb) : pb[k].name = name}
\* the (node, port) pairs that have a Tensor, 1-based
Tensors == {t \in (1..Len(nodes)) \X (1..2) : t[2] <= Len(nodes[t[1]].outputs)}
FormsOf(t) == nodes[t[1]].outputs[t[2]].forms
\* "<name>/replica_<i>:<port>"
ReplicaRef(t, i) == nodes[t[1]].raw_node.name \o <<"/replica", "_">> \o ToStr(i) \o <<":">> \o ToStr(t[2] - 1)
\* "<name>/<port>_<code of F>"
AuxPrefix(t, F) == nodes[t[1]].raw_node.name \o <<"/">> \o ToStr(t[2] - 1) \o <<"_">> \o code(F)
Calls == IF last.op = "compile" THEN {last.calls[c] : c \in 1..Len(last.calls)} ELSE {}

\* C1: once as_form(F) has returned a list for a tensor, the cache entry stays as
\* it is; a later call for the same (tensor, form) returns that list and appends
\* no operator to the target.
C1_CacheMonotone ==
    [][ /\ \A k \in 1..Len(nodes) : \A q \in 1..Len(nodes[k].outputs) :
              \A F \in DOMAIN nodes[k].outputs[q].forms :
                  /\ Len(nodes'[k].outputs) >= q
                  /\ F \in DOMAIN nodes'[k].outputs[q].forms
                  /\ nodes'[k].outputs[q].forms[F] = nodes[k].outputs[q].forms[F]
        /\ last'.op = "compile" =>
              \A c \in 1..Len(last'.calls) :
                  last'.calls[c].hit =>
                      /\ last'.calls[c].after = last'.calls[c].before
                      /\ last'.calls[c].ret =
                            CacheGet(nodes', last'.calls[c].id, last'.calls[c].index, last'.calls[c].form)
      ]_vars

\* the first replica of C asks for a form of A's output that B made A convert to
C1_Witness ==
    /\ last.op = "compile" /\ last.node = 2 /\ last.replica = 0
    /\ \E c \in Calls : c.id = 0 /\ c.hit /\ c.form # nodes[1].form /\ Len(c.ret) >= 2
    /\ \E k \in 1..Len(pb) : pb[k].op = "Split"

\* C2: after every step of a compile pass, every data input of every operator of
\* target.pb.node names, once its :port suffix is stripped, an operator at a
\* smaller position.
C2_InputsEmittedEarlier ==
    \A k \in 1..Len(pb) : \A i \in 1..Len(pb[k].input) :
        ~starts_with_caret(pb[k].input[i]) =>
            \E j \in 1..(k - 1) : pb[j].name = parse_input(pb[k].input[i]).name

\* a finished pass that emitted a concat, a split and the replicas reading them
C2_Witness ==
    /\ pc = "done"
    /\ \E k \in 1..Len(pb) : pb[k].op = "ConcatV2"
    /\ \E k \in 1..Len(pb) : pb[k].op = "Split"
    /\ \E k \in 1..Len(pb) : "_tge_origin" \in DOMAIN pb[k].attr /\ Len(pb[k].input) >= 2

\* C5: for the tensor at port k of a node whose form is F with n devices,
\* as_form(F) returns <name>/replica_0:k .. <name>/replica_{n-1}:k and leaves
\* target.pb.node as it was, whatever was requested before.
C5_OwnFormIdentity ==
    /\ \A c \in Calls :
          c.form = nodes[c.id + 1].form =>
              /\ c.ret = [i \in 1..Len(c.form.devices) |-> ReplicaRef(<<c.id + 1, c.index + 1>>, i - 1)]
              /\ c.after = c.before
    /\ \A t \in Tensors :
          nodes[t[1]].form \in DOMAIN FormsOf(t) =>
              FormsOf(t)[nodes[t[1]].form] =
                  [i \in 1..Len(nodes[t[1]].form.devices) |-> ReplicaRef(t, i - 1)]

\* a consumer asks for the producer's own form (two devices or more) after
\* another form of the same tensor was requested
C5_Witness ==
    \E c \in Calls :
        /\ c.form = nodes[c.id + 1].form
        /\ Len(c.ret) >= 2
        /\ c.index = 1
        /\ Cardinality(DOMAIN FormsOf(<<c.id + 1, c.index + 1>>)) >= 2
        /\ last.node = 2

\* C6: every entry (F -> list) of every tensor's form cache has a list of
\* F.ndev() names.
C6_EntryLength ==
    \A t \in Tensors : \A F \in DOMAIN FormsOf(t) : Len(FormsOf(t)[F]) = Len(F.devices)

\* a Part tensor was resplit to a device list of another length that repeats a device
C6_Witness ==
    \E t \in Tensors : \E F \in DOMAIN FormsOf(t) :
        /\ nodes[t[1]].form.kind = "Part" /\ F.kind = "Part"
        /\ Len(F.devices) # Len(nodes[t[1]].form.devices)
        /\ Len(F.devices) >= 2 /\ Len(nodes[t[1]].form.devices) >= 2
        /\ \E i \in 1..(Len(F.devices) - 1) : F.devices[i] = F.devices[i + 1]

\* the node a replica was emitted for
OriginOf(op) == CHOOSE k \in 1..Len(nodes) : nodes[k].raw_node.name = op.attr["_tge_origin"]
Replicas == {k \in 1..Len(pb) : "_tge_origin" \in DOMAIN pb[k].attr}
\* the replica index of the replica at position k of pb
ReplicaIndexOf(k) == Cardinality({j \in 1..(k - 1) : j \in Replicas /\ OriginOf(pb[j]) = OriginOf(pb[k])})

\* C7: for every replica emitted by Node::compile and every data input i,
\* _tge_input_sizes[i] is the producer tensor's get_size() when the input is
\* requested as Full and get_size()/ndev when it is requested as Part.
C7_InputSizeByRequestedKind ==
    \A k \in Replicas :
        \A i \in 1..Len(nodes[OriginOf(pb[k])].inputs) :
            /\ "_tge_input_sizes" \in DOMAIN pb[k].attr
            /\ Len(pb[k].attr["_tge_input_sizes"]) >= i
            /\ pb[k].attr["_tge_input_sizes"][i] =
                  IF nodes[OriginOf(pb[k])].inputs[i].kind = "Full"
                  THEN get_size(nodes[nodes[OriginOf(pb[k])].inputs[i].id + 1],
                                nodes[OriginOf(pb[k])].inputs[i].index)
                  ELSE get_size(nodes[nodes[OriginOf(pb[k])].inputs[i].id + 1],
                                nodes[OriginOf(pb[k])].inputs[i].index)
                          \div Len(nodes[OriginOf(pb[k])].form.devices)

\* "<producer>/<port>_part_<devices>/aux_split/split:<r>" for input i of the node at n
SplitRefOf(n, i, r) ==
    AuxPrefix(<<nodes[n].inputs[i].id + 1, nodes[n].inputs[i].index + 1>>,
              MkForm("Part", nodes[n].form.devices))
        \o <<"/aux_split/split", ":">> \o ToStr(r)

\* the replica at position k of pb reads, as input i, output r of the one Split
\* (num_split = its node's device count, on the producer's first device, fed by
\* the one Const 0 and the producer's replica 0) emitted for that producer
ReadsSplit(k, i) ==
    LET n == OriginOf(pb[k])
        t == <<nodes[n].inputs[i].id + 1, nodes[n].inputs[i].index + 1>>
        prefix == AuxPrefix(t, MkForm("Part", nodes[n].form.devices))
        dev == target.devices[nodes[t[1]].form.devices[1] + 1]
    IN /\ pb[k].input[i] = SplitRefOf(n, i, ReplicaIndexOf(k))
       /\ Cardinality({j \in 1..Len(pb) : IsPrefix(prefix, pb[j].name)}) = 2
       /\ \E d, sp \in 1..(k - 1) :
            /\ pb[d].name = prefix \o <<"/aux_split/dim">>
            /\ pb[d].op = "Const" /\ pb[d].attr["value"].int_val = <<0>> /\ pb[d].device = dev
            /\ pb[sp].name = prefix \o <<"/aux_split/split">>
            /\ pb[sp].op = "Split" /\ pb[sp].device = dev
            /\ pb[sp].attr["num_split"] = Len(nodes[n].form.devices)
            /\ pb[sp].input = <<pb[d].name, ReplicaRef(t, 0)>>

\* C8 as stated: a consumer whose form is Part over k devices and that reads a
\* Full producer gets output i of one Split (num_split = k) on its replica i.
C8_PartConsumerReadsSplit ==
    \A k \in Replicas :
        \A i \in 1..Len(nodes[OriginOf(pb[k])].inputs) :
            (/\ nodes[OriginOf(pb[k])].form.kind = "Part"
             /\ nodes[nodes[OriginOf(pb[k])].inputs[i].id + 1].form.kind = "Full")
                => ReadsSplit(k, i)

\* C8 amended: a consumer that requests an input as Part (the kind of its input
\* triple) from a Full producer gets output i of one Split (num_split = the
\* consumer's device count, on the producer's first device) on its replica i.
C8_PartInputReadsSplit ==
    \A k \in Replicas :
        \A i \in 1..Len(nodes[OriginOf(pb[k])].inputs) :
            (/\ nodes[OriginOf(pb[k])].inputs[i].kind = "Part"
             /\ nodes[nodes[OriginOf(pb[k])].inputs[i].id + 1].form.kind = "Full")
                => ReadsSplit(k, i)

\* A is full_0, B is part_0_1 and requests its input as Part; B/replica_1 is emitted
C8_Witness ==
    /\ nodes[1].form = MkForm("Full", <<0>>)
    /\ nodes[2].form = MkForm("Part", <<0, 1>>)
    /\ nodes[2].inputs[1].kind = "Part"
    /\ \E k \in 1..Len(pb) : pb[k].name = <<"B", "/replica", "_", "1">>
                             /\ pb[k].input[1] = <<"A", "/", "1", "_", "part", "_", "0", "_", "1",
                                                   "/aux_split/split", ":", "1">>

\* C9: a form that is not the producer's is built by the builder that
\* (requested kind, producer kind) selects: broadcast, split, concat, resplit;
\* no AddN, NcclAllReduce or ring all-reduce operator is ever emitted.
C9_DispatchByKinds ==
    /\ \A k \in 1..Len(pb) :
          "_tge_belong_to" \in DOMAIN pb[k].attr => pb[k].op \in {"Const", "ConcatV2", "Split"}
    /\ \A t \in Tensors : \A F \in DOMAIN FormsOf(t) :
          F # nodes[t[1]].form =>
            \A i \in 1..Len(FormsOf(t)[F]) :
              LET own == nodes[t[1]].form
                  ref == FormsOf(t)[F][i]
              IN CASE F.kind = "Full" /\ own.kind = "Full" ->
                        \E j \in 0..(Len(own.devices) - 1) : ref = ReplicaRef(t, j)
                   [] F.kind = "Part" /\ own.kind = "Full" ->
                        ref = AuxPrefix(t, F) \o <<"/aux_split/split", ":">> \o ToStr(i - 1)
                   [] F.kind = "Full" /\ own.kind = "Part" ->
                        /\ ref = AuxPrefix(t, F) \o <<"/aux_concat/concat">>
                        /\ \E j \in Named(ref) : pb[j].op = "ConcatV2"
                   [] F.kind = "Part" /\ own.kind = "Part" ->
                        \E c \in 0..(Len(own.devices) - 1), j \in 0..(Len(F.devices) - 1) :
                            ref = AuxPrefix(t, F) \o <<"/aux_resplit", "_">> \o ToStr(c)
                                    \o <<"/split", ":">> \o ToStr(j)

\* one tensor of a Part node was requested both as Part (resplit) and as Full (concat)
C9_Witness ==
    \E t \in Tensors : \E F, G \in DOMAIN FormsOf(t) :
        /\ nodes[t[1]].form.kind = "Part"
        /\ F.kind = "Part" /\ F # nodes[t[1]].form
        /\ G.kind = "Full"

(***************************************************************************)
(* Tensor::all_reduce_ring on output `index` of node `id`, one iteration   *)
(* of its loops per step.  `ring` holds the locals of the call.            *)
(***************************************************************************)
\* the assertion that opens all_reduce_ring (graph.rs 467)
RingArgsOk(from, to) ==
    valid(from) /\ valid(to) /\ is_part(from) /\ is_full(to) /\ from.devices = to.devices

\* name += "/<to.code()>_<index>/aux_ring/<suffix>"
RingName(node, index, to, suffix) ==
    node.raw_node.name \o <<"/">> \o code(to) \o <<"_">> \o ToStr(index) \o suffix

\* make_node, then the name, the device and the T attribute
RingOp(op, suffix) ==
    [make_node(nodes[ring.id + 1], op) EXCEPT
        !.name = RingName(nodes[ring.id + 1], ring.index, ring.to, suffix),
        !.device = ring.devices[ring.i + 1],
        !.attr = AttrInsert(@, "T", ring.dtype)]

\* a Const of dtype int32: no T attribute
RingConst(suffix, tensor_shape, int_val) ==
    [make_node(nodes[ring.id + 1], "Const") EXCEPT
        !.name = RingName(nodes[ring.id + 1], ring.index, ring.to, suffix),
        !.device = ring.devices[ring.i + 1],
        !.attr = AttrInsert(AttrInsert(@, "dtype", "DT_INT32"), "value",
                            [dtype |-> "DT_INT32", tensor_shape |-> tensor_shape, int_val |-> int_val])]

\* the index that follows i, the round that follows when i wraps, and the phase
\* that follows when the loop of `rounds` rounds of n iterations ends
RingAdvance(rounds, next_phase) ==
    IF ring.i + 1 < ring.n THEN [phase |-> ring.phase, round |-> ring.round, i |-> ring.i + 1]
    ELSE IF ring.round + 1 < rounds THEN [phase |-> ring.phase, round |-> ring.round + 1, i |-> 0]
    ELSE [phase |-> next_phase, round |-> 0, i |-> 0]

\* the phase after the chunking: 0..n-1 is empty when n = 1
AfterChunks == IF ring.n - 1 > 0 THEN "reduce" ELSE "concat"

\* the locals bound at graph.rs 469-473, r being what as_form(from) returned
RingEntered(r) ==
    /\ nodes' = r.w.nodes
    /\ target' = r.w.target
    /\ pc' = IF r.w.panic THEN "aborted" ELSE "ring"
    /\ ring' = [ring EXCEPT
                    !.phase = "shapes",
                    !.devices = [k \in 1..ndev(ring.from) |-> target.devices[ring.from.devices[k] + 1]],
                    !.n = ndev(ring.from),
                    !.dtype = get_dtype(nodes[ring.id + 1].raw_node),
                    !.psize = get_size(nodes[ring.id + 1], ring.index) \div ndev(ring.from),
                    !.list = r.ret]

\* graph.rs 467-473
RingCall ==
    /\ pc = "ring" /\ ring.phase = "call"
    /\ IF \/ ~RingArgsOk(ring.from, ring.to)
          \/ \E k \in 1..ndev(ring.from) : ring.from.devices[k] >= Len(target.devices)
          \/ get_dtype(nodes[ring.id + 1].raw_node) = "panic"
       THEN pc' = "aborted" /\ UNCHANGED <<nodes, target, ring>>
       ELSE RingEntered(as_form(World(nodes, target), ring.id, ring.index, ring.from))
    /\ UNCHANGED <<history, defs, queue, name_dict, cur, last>>

\* the step of a loop: the operators pushed, the locals as they are after it
RingStep(phase, pushed, locals) ==
    /\ pc = "ring" /\ ring.phase = phase
    /\ target' = [target EXCEPT !.pb = @ \o pushed]
    /\ ring' = locals
    /\ UNCHANGED <<history, defs, queue, name_dict, nodes, cur, last, pc>>

\* 1. recording the shape (graph.rs 476-486)
ShapeNode ==
    set_input_size([RingOp("Shape", <<"/aux_ring/shape", "_">> \o ToStr(ring.i)) EXCEPT
                        !.input = <<ring.list[ring.i + 1]>>],
                   0, ring.psize)
RingShape ==
    RingStep("shapes", <<ShapeNode>>,
             [ring EXCEPT !.shapes = Append(@, ShapeNode.name),
                          !.phase = RingAdvance(1, "flats").phase,
                          !.i = RingAdvance(1, "flats").i])

\* 2. flattening (graph.rs 489-516)
FlatShapeNode == RingConst(<<"/aux_ring/flat", "_">> \o ToStr(ring.i) \o <<"/shape">>, <<1>>, <<-1>>)
FlatNode ==
    set_input_size([RingOp("Reshape", <<"/aux_ring/flat", "_">> \o ToStr(ring.i) \o <<"/flat">>) EXCEPT
                        !.input = <<ring.list[ring.i + 1], FlatShapeNode.name>>],
                   0, ring.psize)
RingFlat ==
    RingStep("flats", <<FlatShapeNode, FlatNode>>,
             [ring EXCEPT !.flats = Append(@, FlatNode.name),
                          !.phase = RingAdvance(1, "chunks").phase,
                          !.i = RingAdvance(1, "chunks").i])

\* 3. chunking (graph.rs 519-545)
ChunkDimNode == RingConst(<<"/aux_ring/split", "_">> \o ToStr(ring.i) \o <<"/dim">>, <<>>, <<0>>)
ChunkSplitNode ==
    set_input_size([RingOp("Split", <<"/aux_ring/split", "_">> \o ToStr(ring.i) \o <<"/split">>) EXCEPT
                        !.input = <<ChunkDimNode.name, ring.flats[ring.i + 1]>>,
                        !.attr = AttrInsert(@, "num_split", ring.n)],
                   1, ring.psize)
RingChunk ==
    RingStep("chunks", <<ChunkDimNode, ChunkSplitNode>>,
             [ring EXCEPT !.chunks = Append(@, [x \in 1..ring.n |-> WithPort(ChunkSplitNode.name, x - 1)]),
                          !.phase = RingAdvance(1, AfterChunks).phase,
                          !.i = RingAdvance(1, AfterChunks).i])

\* 4. n-1 rounds of reducing (graph.rs 548-562)
\* every device reduces chunk 0 in every round
ReduceChunkZero(round, i, n) == 0
ReduceChunk(round, i, n) == (round + i) % n
AddPeerSelf(i, n) == i
AddPeer(i, n) == (i + 1) % n
AddNode ==
    set_input_size(
        set_input_size(
            [RingOp("Add", <<"/aux_ring/add", "_">> \o ToStr(ring.i) \o <<"_">> \o ToStr(ring.round)) EXCEPT
                !.input = <<ring.chunks[ring.i + 1][ReduceChunk(ring.round, ring.i, ring.n) + 1],
                            ring.chunks[AddPeer(ring.i, ring.n) + 1][ReduceChunk(ring.round, ring.i, ring.n) + 1]>>],
            0, ring.psize),
        1, ring.psize)
RingAdd ==
    RingStep("reduce", <<AddNode>>,
             [ring EXCEPT !.chunks[ring.i + 1][ReduceChunk(ring.round, ring.i, ring.n) + 1] = AddNode.name,
                          !.phase = RingAdvance(ring.n - 1, "gather").phase,
                          !.round = RingAdvance(ring.n - 1, "gather").round,
                          !.i = RingAdvance(ring.n - 1, "gather").i])

\* 5. n-1 rounds of gathering (graph.rs 565-576)
GatherChunkNoWrap(round, i, n) == (i + round) % n
GatherChunk(round, i, n) == (i + round + n - 1) % n
IdentityNode ==
    set_input_size([RingOp("Identity", <<"/aux_ring/identity", "_">> \o ToStr(ring.i) \o <<"_">> \o ToStr(ring.round)) EXCEPT
                        !.input = <<ring.chunks[((ring.i + 1) % ring.n) + 1][GatherChunk(ring.round, ring.i, ring.n) + 1]>>],
                   0, ring.psize)
RingIdentity ==
    RingStep("gather", <<IdentityNode>>,
             [ring EXCEPT !.chunks[ring.i + 1][GatherChunk(ring.round, ring.i, ring.n) + 1] = IdentityNode.name,
                          !.phase = RingAdvance(ring.n - 1, "concat").phase,
                          !.round = RingAdvance(ring.n - 1, "concat").round,
                          !.i = RingAdvance(ring.n - 1, "concat").i])

\* 6. concating (graph.rs 579-608)
ConcatAxisNode == RingConst(<<"/aux_ring/concat", "_">> \o ToStr(ring.i) \o <<"/axis">>, <<>>, <<0>>)
RingConcatNode ==
    SetInputSizes([RingOp("ConcatV2", <<"/aux_ring/concat", "_">> \o ToStr(ring.i) \o <<"/concat">>) EXCEPT
                        !.input = Append(ring.chunks[ring.i + 1], ConcatAxisNode.name),
                        !.attr = AttrInsert(AttrInsert(@, "N", ring.n), "Tidx", "DT_INT32")],
                  Len(ring.chunks[ring.i + 1]), ring.psize)
RingConcat ==
    RingStep("concat", <<ConcatAxisNode, RingConcatNode>>,
             [ring EXCEPT !.concated = Append(@, RingConcatNode.name),
                          !.phase = RingAdvance(1, "reshape").phase,
                          !.i = RingAdvance(1, "reshape").i])

\* 7. restore shapes (graph.rs 611-623); the call returns after the last one
ReshapeNode ==
    set_input_size([RingOp("Reshape", <<"/aux_ring/reshape", "_">> \o ToStr(ring.i)) EXCEPT
                        !.input = <<ring.concated[ring.i + 1], ring.shapes[ring.i + 1]>>],
                   0, ring.psize)
RingReshape ==
    RingStep("reshape", <<ReshapeNode>>,
             [ring EXCEPT !.ret = Append(@, ReshapeNode.name),
                          !.phase = RingAdvance(1, "returned").phase,
                          !.i = RingAdvance(1, "returned").i])

\* the call the strategy makes: the tensor, its node's form as `from`, and `to`
RingCallOf(index, from, to) ==
    [phase |-> "call", id |-> 0, index |-> index, from |-> from, to |-> to,
     devices |-> <<>>, n |-> 0, dtype |-> "", psize |-> 0, list |-> <<>>,
     shapes |-> <<>>, flats |-> <<>>, chunks |-> <<>>, concated |-> <<>>, ret |-> <<>>,
     round |-> 0, i |-> 0]

\* the graph of CompiledDefs with A placed and the tensor of its port obtained
RingGraph(g, da, ka, index) ==
    /\ nodes = get_output(<<Place(g.nodes[1], da, ka, "Full"), g.nodes[2], g.nodes[3]>>, 0, index)
    /\ name_dict = g.name_dict

InitRing ==
    /\ defs = CompiledDefs
    /\ queue = <<>>
    /\ \E da \in DeviceLists, ka \in Kinds, index \in 0..1, same \in BOOLEAN :
        /\ RingGraph(BuildLoop(defs, <<>>, NoAttr), da, ka, index)
        /\ ring = RingCallOf(index, MkForm(ka, da), MkForm("Full", IF same THEN da ELSE <<0>>))
    /\ target = EmptyTarget
    /\ pc = "ring"
    /\ cur = [node |-> 0, replica |-> 0]
    /\ last = NoCall
    /\ history = <<>>

NextRing ==
    \/ RingCall
    \/ RingShape
    \/ RingFlat
    \/ RingChunk
    \/ RingAdd
    \/ RingIdentity
    \/ RingConcat
    \/ RingReshape

SpecRing == InitRing /\ [][NextRing]_vars

(***************************************************************************)
(* Properties of all_reduce_ring.                                          *)
(***************************************************************************)
\* the operator of pb a reference names
OpNamed(name) == pb[CHOOSE k \in 1..Len(pb) : pb[k].name = name]
\* chunk x of every whole part of the bag
ChunkOf(bag, x) == [e \in {<<k[1], x>> : k \in DOMAIN bag} |-> bag[<<e[1], -1>>]]

\* what a reference denotes: the bag of (replica, chunk) pairs it sums, chunk -1
\* being the whole part of the replica
RECURSIVE Denote(_)
DenoteOp(o, port) ==
    CASE o.op = "Reshape"  -> Denote(o.input[1])
      [] o.op = "Split"    -> ChunkOf(Denote(o.input[2]), port)
      [] o.op = "Add"      -> Denote(o.input[1]) (+) Denote(o.input[2])
      [] o.op = "Identity" -> Denote(o.input[1])
Denote(ref) ==
    IF \E j \in 1..Len(ring.list) : ring.list[j] = ref
    THEN SetToBag({<<(CHOOSE j \in 1..Len(ring.list) : ring.list[j] = ref) - 1, -1>>})
    ELSE DenoteOp(OpNamed(parse_input(ref).name), parse_input(ref).index)

\* C10: in all_reduce_ring over n >= 2 devices, once the n-1 rounds of reducing
\* are done, chunks[i][(i+n-2) mod n] denotes the sum of chunk (i+n-2) mod n of
\* all n replicas of the producer, each once.
C10_ReduceScatterSum ==
    (pc = "ring" /\ ring.phase = "gather" /\ ring.n >= 2) =>
        \A i \in 0..(ring.n - 1) :
            Denote(ring.chunks[i + 1][((i + ring.n - 2) % ring.n) + 1]) =
                SetToBag({<<j, (i + ring.n - 2) % ring.n>> : j \in 0..(ring.n - 1)})

\* the two rounds of reducing over three replicas, two on the same device, are done
C10_Witness ==
    /\ pc = "ring" /\ ring.phase = "gather" /\ ring.round = 0 /\ ring.i = 0
    /\ ring.n = 3
    /\ ring.from.devices = <<0, 1, 1>>
    /\ Cardinality({k \in 1..Len(pb) : pb[k].op = "Add"}) = 6

\* chunk c of every replica of the producer, each once
FullSum(c) == SetToBag({<<j, c>> : j \in 0..(ring.n - 1)})
\* what the data inputs of the ConcatV2 a reference names denote, in input order
ConcatParts(ref) ==
    [c \in 1..(Len(OpNamed(parse_input(ref).name).input) - 1) |->
        Denote(OpNamed(parse_input(ref).name).input[c])]
\* the all-reduced tensor: the fully reduced chunks 0..n-1
AllReduced == [c \in 1..ring.n |-> FullSum(c - 1)]

\* C11: in all_reduce_ring over n >= 1 devices, once the n-1 rounds of gathering
\* are done, every chunks[i][c] denotes the sum of chunk c of all n replicas; the
\* ConcatV2 on device i concatenates the reduced chunks 0..n-1 in order, and each
\* of the n returned names is a Reshape of such a concat.
C11_AllGatherComplete ==
    (pc = "ring" /\ ring.phase \in {"concat", "reshape", "returned"}) =>
        /\ \A i \in 1..ring.n : \A c \in 1..ring.n : Denote(ring.chunks[i][c]) = FullSum(c - 1)
        /\ \A k \in 1..Len(ring.concated) :
              /\ OpNamed(ring.concated[k]).op = "ConcatV2"
              /\ OpNamed(ring.concated[k]).device = ring.devices[k]
              /\ ConcatParts(ring.concated[k]) = AllReduced
        /\ \A k \in 1..Len(ring.ret) :
              /\ OpNamed(ring.ret[k]).op = "Reshape"
              /\ OpNamed(ring.ret[k]).device = ring.devices[k]
              /\ ConcatParts(OpNamed(ring.ret[k]).input[1]) = AllReduced
              /\ OpNamed(ring.ret[k]).input[2] = ring.shapes[k]
        /\ ring.phase = "returned" => Len(ring.ret) = ring.n

\* the call over three replicas, two on the same device, has returned
C11_Witness ==
    /\ pc = "ring" /\ ring.phase = "returned"
    /\ ring.n = 3 /\ ring.from.devices = <<0, 0, 1>>
    /\ Len(ring.ret) = 3
    /\ Cardinality({k \in 1..Len(pb) : pb[k].op = "Identity"}) = 6

(***************************************************************************)
(* The rounds of all_reduce_ring against rounds that update every device   *)
(* at once from the chunk table as it is when the round starts.            *)
(***************************************************************************)
\* the names of the Split outputs, the Add and the Identity of device i
SplitOut(i, x) ==
    WithPort(RingName(nodes[ring.id + 1], ring.index, ring.to,
                      <<"/aux_ring/split", "_">> \o ToStr(i) \o <<"/split">>), x)
AddName(i, round) ==
    RingName(nodes[ring.id + 1], ring.index, ring.to,
             <<"/aux_ring/add", "_">> \o ToStr(i) \o <<"_">> \o ToStr(round))
IdentityName(i, round) ==
    RingName(nodes[ring.id + 1], ring.index, ring.to,
             <<"/aux_ring/identity", "_">> \o ToStr(i) \o <<"_">> \o ToStr(round))

\* the chunk table when the first round starts
SplitTable == [i \in 1..ring.n |-> [x \in 1..ring.n |-> SplitOut(i - 1, x - 1)]]
\* one round of reducing, every device at once
ReduceAtOnce(tab, round) ==
    [i \in 1..ring.n |-> [x \in 1..ring.n |->
        IF x - 1 = (round + i - 1) % ring.n THEN AddName(i - 1, round) ELSE tab[i][x]]]
\* one round of gathering, every device at once
GatherAtOnce(tab, round) ==
    [i \in 1..ring.n |-> [x \in 1..ring.n |->
        IF x - 1 = (i - 1 + round + ring.n - 1) % ring.n THEN IdentityName(i - 1, round) ELSE tab[i][x]]]
\* the table when round `round` of reducing, of gathering, starts
RECURSIVE ReduceStart(_)
ReduceStart(round) == IF round = 0 THEN SplitTable ELSE ReduceAtOnce(ReduceStart(round - 1), round - 1)
RECURSIVE GatherStart(_)
GatherStart(round) ==
    IF round = 0 THEN ReduceStart(ring.n - 1) ELSE GatherAtOnce(GatherStart(round - 1), round - 1)

\* the rounds that have started, and the names written in a round
RingRounds == 0..(ring.n - 2)
AddsOf(round) == {AddName(j, round) : j \in 0..(ring.n - 1)}
IdentitiesOf(round) == {IdentityName(j, round) : j \in 0..(ring.n - 1)}
Emitted(name) == \E k \in 1..Len(pb) : pb[k].name = name

\* C26: in every round of reducing and of gathering of all_reduce_ring, the
\* chunk device i reads from device (i+1) mod n was not written earlier in the
\* same round: every Add and every Identity reads what the chunk table held
\* when its round started, and when a round ends the table is the one that
\* updating every device at once from that table gives.
C26_RoundsAsIfAtOnce ==
    (pc = "ring" /\ ring.phase \in {"reduce", "gather", "concat", "reshape", "returned"}) =>
        /\ \A round \in RingRounds : \A i \in 0..(ring.n - 1) :
            Emitted(AddName(i, round)) =>
                /\ OpNamed(AddName(i, round)).input[2] \notin AddsOf(round)
                /\ OpNamed(AddName(i, round)).input
                     = <<ReduceStart(round)[i + 1][((round + i) % ring.n) + 1],
                         ReduceStart(round)[((i + 1) % ring.n) + 1][((round + i) % ring.n) + 1]>>
        /\ \A round \in RingRounds : \A i \in 0..(ring.n - 1) :
            Emitted(IdentityName(i, round)) =>
                /\ OpNamed(IdentityName(i, round)).input[1] \notin IdentitiesOf(round)
                /\ OpNamed(IdentityName(i, round)).input
                     = <<GatherStart(round)[((i + 1) % ring.n) + 1][((i + round + ring.n - 1) % ring.n) + 1]>>
        /\ (ring.phase = "reduce" /\ ring.i = 0) => ring.chunks = ReduceStart(ring.round)
        /\ (ring.phase = "gather" /\ ring.i = 0) => ring.chunks = GatherStart(ring.round)
        /\ ring.phase \in {"concat", "reshape", "returned"} =>
                ring.chunks = (IF ring.n >= 2 THEN GatherAtOnce(GatherStart(ring.n - 2), ring.n - 2)
                               ELSE SplitTable)
\* both last rounds over three replicas are done: in each, device 2 read from
\* device 0 after device 0 had written
C26_Witness ==
    /\ pc = "ring" /\ ring.phase = "concat" /\ ring.i = 0
    /\ ring.n = 3
    /\ Emitted(AddName(2, 1))
    /\ Emitted(IdentityName(2, 1))

(***************************************************************************)
(* Tensor::all_reduce_nccl.                                                *)
(***************************************************************************)
\* the input of the i-th NcclAllReduce (graph.rs 458), `name` being as_form(from)[i]
NcclInput(name, index) == WithPort(name, index)

\* "/aux_nccl_<i>"
NcclSuffix(i) == <<"/aux_nccl", "_">> \o ToStr(i)

\* graph.rs 451-458, names being what as_form(from) returned
NcclNode(w, node, index, from, to, i, names) ==
    [make_node(node, "NcclAllReduce") EXCEPT
        !.name = AuxName(node, index, to, NcclSuffix(i)),
        !.device = DeviceOf(w, from.devices[i + 1]),
        !.attr = AttrInsert(AttrInsert(AttrInsert(AttrInsert(@,
                    "reduction", "sum"),
                    "T", get_dtype(node.raw_node)),
                    "num_devices", ndev(from)),
                    "shared_name", original_name(node, index)),
        !.input = <<NcclInput(names[i + 1], index)>>]

RECURSIVE NcclLoop(_, _, _, _, _, _)

\* graph.rs 458-460 for device i, r being what as_form(from) returned
NcclRest(r, id, index, from, to, i) ==
    IF r.w.panic \/ i >= Len(r.ret) THEN Panic(r.w)
    ELSE NcclLoop(Push(r.w, NcclNode(r.w, r.w.nodes[id + 1], index, from, to, i, r.ret)),
                  id, index, from, to, i + 1)

\* the loop of graph.rs 450-461 from device i on, then the names returned (463)
NcclLoop(w, id, index, from, to, i) ==
    IF i >= ndev(from)
    THEN Ret(w, [k \in 1..ndev(from) |-> AuxName(w.nodes[id + 1], index, to, NcclSuffix(k - 1))])
    ELSE IF ~DeviceOk(w, from.devices[i + 1]) \/ get_dtype(w.nodes[id + 1].raw_node) = "panic"
    THEN Panic(w)
    ELSE NcclRest(as_form(w, id, index, from), id, index, from, to, i)

\* Tensor::all_reduce_nccl
all_reduce_nccl(w, id, index, from, to) ==
    IF ~RingArgsOk(from, to) THEN Panic(w) ELSE NcclLoop(w, id, index, from, to, 0)

(***************************************************************************)
(* The strategy calls builders on the outputs of A itself, then compiles.  *)
(***************************************************************************)
\* most calls the strategy makes before it compiles
MaxCalls == 2

Builders == {"aggregate_sum", "aggregate_cat", "replicate_broadcast", "replicate_split",
             "resplit", "all_reduce_nccl"}
\* the kind of the form each builder produces
ToKind(b) == IF b \in {"replicate_split", "resplit"} THEN "Part" ELSE "Full"

CallBuilder(b, w, id, index, from, to) ==
    CASE b = "aggregate_sum"       -> aggregate_sum(w, id, index, from, to)
      [] b = "aggregate_cat"       -> aggregate_cat(w, id, index, from, to)
      [] b = "replicate_broadcast" -> replicate_broadcast(w, id, index, from, to)
      [] b = "replicate_split"     -> replicate_split(w, id, index, from, to)
      [] b = "resplit"             -> resplit(w, id, index, from, to)
      [] b = "all_reduce_nccl"     -> all_reduce_nccl(w, id, index, from, to)

\* the state a builder call leaves, r being what it returned
Called(b, index, from, to, r) ==
    /\ nodes' = r.w.nodes
    /\ target' = r.w.target
    /\ pc' = IF r.w.panic THEN "aborted" ELSE "strategy"
    /\ last' = [op |-> b, id |-> 0, index |-> index, from |-> from, to |-> to,
                ret |-> r.ret, panic |-> r.w.panic,
                before |-> target.pb, after |-> r.w.target.pb]
    /\ history' = Append(history, [op |-> b, index |-> index, to |-> to])

\* the strategy calls a builder on output `index` of A, from A's form to a form
\* of the builder's kind on the same devices
StrategyCall ==
    /\ pc = "strategy"
    /\ Len(history) < MaxCalls
    /\ \E b \in Builders, index \in 0..1 :
        Called(b, index, nodes[1].form, MkForm(ToKind(b), nodes[1].form.devices),
               CallBuilder(b, World(get_output(nodes, 0, index), target), 0, index,
                           nodes[1].form, MkForm(ToKind(b), nodes[1].form.devices)))
    /\ UNCHANGED <<defs, queue, name_dict, cur, ring>>

\* the strategy is done and calls Graph::compile
StartCompile ==
    /\ pc = "strategy"
    /\ pc' = "compile"
    /\ cur' = [node |-> 0, replica |-> 0]
    /\ UNCHANGED <<history, defs, queue, nodes, name_dict, target, last, ring>>

\* A placed freely; B on devices 0 and 1 as Part asking for Part inputs; C on
\* devices 0 and 1 as Full asking for Full inputs
InitCalls ==
    /\ defs = CompiledDefs
    /\ queue = <<>>
    /\ \E da \in DeviceLists, ka \in Kinds :
        PlacedGraph(BuildLoop(defs, <<>>, NoAttr), da, <<0, 1>>, ka, "Part", "Full", "Part", "Full")
    /\ target = EmptyTarget
    /\ pc = "strategy"
    /\ cur = [node |-> 0, replica |-> 0]
    /\ last = NoCall
    /\ history = <<>>
    /\ ring = NoRing

NextCalls ==
    \/ StrategyCall
    \/ StartCompile
    \/ CompileReplica
    \/ NextNode
    \/ CompileDone

SpecCalls == InitCalls /\ [][NextCalls]_vars

(***************************************************************************)
(* Properties of the builders the strategy calls and of the pass after.    *)
(***************************************************************************)
\* the operators the last builder call appended
Appended == [k \in 1..(Len(last.after) - Len(last.before)) |-> last.after[Len(last.before) + k]]

\* C12: all_reduce_nccl with from.devices = to.devices of size n appends exactly n
\* NcclAllReduce operators; the i-th is on device from.devices[i], has
\* num_devices = n, shared_name = the tensor's original name and the single input
\* "<node>/replica_<i>:<port>"; the names returned are those of the n operators.
C12_NcclReadsReplicas ==
    (last.op = "all_reduce_nccl" /\ ~last.panic) =>
        /\ SubSeq(last.after, 1, Len(last.before)) = last.before
        /\ Len(Appended) = ndev(last.from)
        /\ Len(last.ret) = ndev(last.from)
        /\ \A i \in 1..Len(Appended) :
              /\ Appended[i].op = "NcclAllReduce"
              /\ Appended[i].device = target.devices[last.from.devices[i] + 1]
              /\ Appended[i].attr["num_devices"] = ndev(last.from)
              /\ Appended[i].attr["shared_name"] = original_name(nodes[last.id + 1], last.index)
              /\ Appended[i].name = last.ret[i]
              /\ Appended[i].input = <<ReplicaRef(<<last.id + 1, last.index + 1>>, i - 1)>>

(***************************************************************************)
(* Properties of resplit: a tensor of m parts split along axis 0, seen as  *)
(* m * k rows (k the number of pieces asked for), part p holding the rows  *)
(* p * k .. p * k + k - 1.                                                 *)
(***************************************************************************)
RECURSIVE Rows(_, _, _, _)
RECURSIVE RowsOfInputs(_, _, _, _, _)
\* the rows of the first n inputs, one after the other (ConcatV2 along axis 0)
RowsOfInputs(inputs, n, t, m, k) ==
    IF n = 0 THEN <<>>
    ELSE RowsOfInputs(inputs, n - 1, t, m, k) \o Rows(inputs[n], t, m, k)
\* piece j of q equal pieces (output j of Split along axis 0)
Piece(rows, q, j) == SubSeq(rows, j * (Len(rows) \div q) + 1, (j + 1) * (Len(rows) \div q))
\* the rows an operator output holds
RowsOfOp(o, port, t, m, k) ==
    CASE o.op = "ConcatV2" -> RowsOfInputs(o.input, o.attr["N"], t, m, k)
      [] o.op = "Split"    -> Piece(Rows(o.input[2], t, m, k), o.attr["num_split"], port)
\* the rows a reference holds: those of part p for the reference of replica p
Rows(ref, t, m, k) ==
    IF \E p \in 0..(m - 1) : ref = ReplicaRef(t, p)
    THEN [r \in 1..k |-> (CHOOSE p \in 0..(m - 1) : ref = ReplicaRef(t, p)) * k + r - 1]
    ELSE RowsOfOp(OpNamed(parse_input(ref).name), parse_input(ref).index, t, m, k)

\* the as_form calls of the last compile step that ran resplit
ResplitCalls ==
    {c \in Calls : /\ ~c.hit
                   /\ c.form.kind = "Part" /\ nodes[c.id + 1].form.kind = "Part"
                   /\ c.form # nodes[c.id + 1].form}

\* C13: for valid Part forms from (m devices) and to (k devices), the tensor
\* being rows split evenly along axis 0, the j-th name resplit returns holds
\* the j-th of k equal contiguous slices of the whole tensor.
C13_ResplitSlices ==
    \A c \in ResplitCalls :
        /\ Len(c.ret) = Len(c.form.devices)
        /\ \A j \in 1..Len(c.ret) :
              Rows(c.ret[j], <<c.id + 1, c.index + 1>>,
                   Len(nodes[c.id + 1].form.devices), Len(c.form.devices))
                = [r \in 1..Len(nodes[c.id + 1].form.devices) |->
                      (j - 1) * Len(nodes[c.id + 1].form.devices) + r - 1]

\* a tensor in two parts was resplit into three
C13_Witness ==
    \E c \in ResplitCalls :
        /\ Len(nodes[c.id + 1].form.devices) = 2
        /\ c.form.devices = <<0, 1, 1>>
        /\ Cardinality({k \in 1..Len(c.after) : c.after[k].op = "Split"}) = 1

\* the builder as_form runs for a requested kind and a producer kind
DispatchName(kind, node_kind) ==
    IF kind = "Full" /\ node_kind = "Full" THEN "replicate_broadcast"
    ELSE IF kind = "Part" /\ node_kind = "Full" THEN "replicate_split"
    ELSE IF kind = "Full" /\ node_kind = "Part" THEN "aggregate_cat"
    ELSE "resplit"

\* as_form ran builder h.op for output h.index of A and form h.to
RanByAsForm(h) ==
    /\ Len(nodes[1].outputs) > h.index
    /\ h.to \in DOMAIN nodes[1].outputs[h.index + 1].forms
    /\ h.to # nodes[1].form
    /\ DispatchName(h.to.kind, nodes[1].form.kind) = h.op

\* no builder ran twice for the same tensor and target form, a call by the
\* strategy and a cache miss of as_form each being a run
NoRunTwice ==
    /\ \A i, j \in 1..Len(history) : history[i] = history[j] => i = j
    /\ \A i \in 1..Len(history) : ~RanByAsForm(history[i])

\* C14 as stated: after any sequence of compile and builder calls, no two
\* operators of target.pb.node have the same name.
C14_NamesUnique == UniqueNames(pb)

\* C14 amended: when no builder ran twice for the same tensor and target form,
\* no two operators of target.pb.node have the same name.
C14_NamesUniqueIfRunOnce == NoRunTwice => UniqueNames(pb)

\* the strategy ran aggregate_cat on both outputs of A, the pass that followed is done
C14_Witness ==
    /\ pc = "done"
    /\ Len(history) = 2
    /\ history[1].op = "aggregate_cat" /\ history[2].op = "aggregate_cat"
    /\ history[1].index # history[2].index
    /\ NoRunTwice
    /\ Len(pb) >= 10

\* C15: every auxiliary operator a builder emits is named
\* "<node>/<port>_<to form code>/aux_<kind>...", the port before the form code;
\* here for the operators of an all_reduce_ring call.
C15_AuxNamePortFirst ==
    \A k \in 1..Len(pb) :
        "_tge_belong_to" \in DOMAIN pb[k].attr =>
            IsPrefix(nodes[ring.id + 1].raw_node.name \o <<"/">> \o ToStr(ring.index)
                        \o <<"_">> \o code(ring.to),
                     pb[k].name)

\* "<ctrl>/replica_<j>" for every replica j of every control producer, in order
RECURSIVE ControlRefs(_)
ControlRefs(controls) ==
    IF controls = <<>> THEN <<>>
    ELSE [j \in 1..Len(nodes[controls[1] + 1].form.devices) |->
            nodes[controls[1] + 1].raw_node.name \o <<"/replica", "_">> \o ToStr(j - 1)]
         \o ControlRefs(Tail(controls))

\* C16: every replica emitted by compile lists, after its data inputs, exactly
\* one "<ctrl>/replica_<j>" per replica j of each of its node's control
\* producers, each naming an operator emitted before it.
C16_ControlFanOut ==
    \A k \in Replicas :
        /\ Len(pb[k].input) =
              Len(nodes[OriginOf(pb[k])].inputs) + Len(ControlRefs(nodes[OriginOf(pb[k])].controls))
        /\ SubSeq(pb[k].input, Len(nodes[OriginOf(pb[k])].inputs) + 1, Len(pb[k].input)) =
              ControlRefs(nodes[OriginOf(pb[k])].controls)
        /\ \A i \in (Len(nodes[OriginOf(pb[k])].inputs) + 1)..Len(pb[k].input) :
              \E j \in 1..(k - 1) : pb[j].name = pb[k].input[i]

\* the second replica of B waits for the three replicas of A
C16_Witness ==
    \E k \in Replicas :
        /\ pb[k].name = <<"B", "/replica", "_", "1">>
        /\ Len(nodes[1].form.devices) = 3
        /\ Len(pb[k].input) = 4


(***************************************************************************)
(* The strategy places the nodes of a graph Graph::new built: it calls     *)
(* put_on_devices on any node with any device list, the empty one too.     *)
(***************************************************************************)
\* the state a put_on_devices call leaves, r being the node it leaves or Panicked
Placed(id, devices, r) ==
    /\ nodes' = IF r = Panicked THEN nodes ELSE [nodes EXCEPT ![id + 1] = r]
    /\ pc' = IF r = Panicked THEN "aborted" ELSE "place"
    /\ last' = [op |-> "put_on_devices", id |-> id, devices |-> devices, panic |-> (r = Panicked),
                before |-> nodes[id + 1].form]
    /\ history' = Append(history, [op |-> "put_on_devices", id |-> id, devices |-> devices])

PutOnDevices ==
    /\ pc = "place"
    /\ Len(history) < MaxCalls
    /\ \E id \in 0..(Len(nodes) - 1), devices \in DeviceLists :
        Placed(id, devices, put_on_devices(nodes[id + 1], devices))
    /\ UNCHANGED <<defs, queue, name_dict, target, cur, ring>>

InitPlace ==
    /\ defs = CompiledDefs
    /\ queue = <<>>
    /\ nodes = BuildLoop(defs, <<>>, NoAttr).nodes
    /\ name_dict = BuildLoop(defs, <<>>, NoAttr).name_dict
    /\ target = EmptyTarget
    /\ pc = "place"
    /\ cur = [node |-> 0, replica |-> 0]
    /\ last = NoCall
    /\ history = <<>>
    /\ ring = NoRing

NextPlace == PutOnDevices

SpecPlace == InitPlace /\ [][NextPlace]_vars

\* the calls made on the node of the last call before that call
EarlierCalls == {k \in 1..(Len(history) - 1) : history[k].id = last.id}

\* C17 as stated: a call to put_on_devices on a node on which put_on_devices was
\* already called fails and leaves the node's form unchanged.
C17_SecondCallFails ==
    (last.op = "put_on_devices" /\ EarlierCalls # {}) =>
        /\ last.panic
        /\ nodes[last.id + 1].form = last.before

\* C17: a call to put_on_devices fails with the "already set replicas" assertion
\* exactly when an earlier call on the same node passed a non-empty device list;
\* a failing call leaves the node's form unchanged, and a call that succeeds
\* appends its devices to the form's device list and leaves the kind alone.
C17_FailsIffDevicesSet ==
    last.op = "put_on_devices" =>
        /\ last.panic <=> (\E k \in EarlierCalls : history[k].devices # <<>>)
        /\ last.panic => nodes[last.id + 1].form = last.before
        /\ ~last.panic => nodes[last.id + 1].form =
                            [last.before EXCEPT !.devices = @ \o last.devices]
C17_Witness ==
    /\ last.op = "put_on_devices"
    /\ EarlierCalls # {}
    /\ last.panic
    /\ last.devices # <<>>


(***************************************************************************)
(* A compile pass that aborts.                                             *)
(***************************************************************************)
\* device lists some of which name a device outside the device table
WideDeviceLists == {d \in UNION {[1..n -> 0..NumDevices] : n \in 1..NumDevices} :
                        \A k \in 1..(Len(d) - 1) : d[k] <= d[k + 1]}

\* the graph of CompiledDefs placed so that a pass can abort after it emitted
\* operators: A on devices that may be outside the table, B placed or never
\* placed, C on the first two devices
AbortGraph(g, da, db, ka, kb, ib) ==
    /\ nodes = <<Place(g.nodes[1], da, ka, "Full"),
                 Place(g.nodes[2], db, kb, ib),
                 Place(g.nodes[3], <<0, 1>>, "Full", "Full")>>
    /\ name_dict = g.name_dict

InitAbort ==
    /\ defs = CompiledDefs
    /\ queue = <<>>
    /\ \E da \in WideDeviceLists, db \in {<<>>, <<0, 1>>}, ka, kb, ib \in Kinds :
        AbortGraph(BuildLoop(defs, <<>>, NoAttr), da, db, ka, kb, ib)
    /\ target = EmptyTarget
    /\ pc = "compile"
    /\ cur = [node |-> 0, replica |-> 0]
    /\ last = NoCall
    /\ history = <<>>
    /\ ring = NoRing

SpecAbort == InitAbort /\ [][Next]_vars

\* C18: when a compile pass aborts with a fatal error, the target holds no
\* operator appended by the aborted pass (the pass started from an empty target).
C18_AbortLeavesNothing == pc = "aborted" => target.pb = <<>>


(***************************************************************************)
(* What the builders and the compile pass do to the target.                *)
(***************************************************************************)
\* C19: every step of the compile pass and every builder call only appends to
\* target.pb.node: the operators already in the list stay, in their order and
\* unmodified, and the device table, the links and the paths are unchanged.
C19_AppendOnly ==
    [][/\ IsPrefix(target.pb, target'.pb)
       /\ target'.devices = target.devices
       /\ target'.links = target.links
       /\ target'.paths = target.paths]_vars
\* a builder call and a compile step that appended to a list that was not empty
C19_Witness ==
    /\ pc = "compile"
    /\ last.op = "compile"
    /\ history # <<>>
    /\ \E k \in 1..Len(pb) : pb[k].name = <<"B", "/replica", "_", "1">>
    /\ \E k \in 1..Len(pb) : pb[k].op = "AddN"


(***************************************************************************)
(* Form::code and Form::from_code.                                         *)
(***************************************************************************)
\* str::split(c): the segments between the tokens c, one empty segment for ""
RECURSIVE Split(_, _)
Split(s, c) ==
    IF Find(s, c) = 0 THEN <<s>>
    ELSE <<SubSeq(s, 1, Find(s, c) - 1)>> \o Split(SubSeq(s, Find(s, c) + 1, Len(s)), c)

\* segs[1..].iter().map(|x| x.parse()): -1 where parse returns an error
ParseSegs(segs) == [k \in 1..(Len(segs) - 1) |-> ParseNat(segs[k + 1])]

\* graph.rs 87-92, segs being the segments of the code: Panicked for
\* unreachable!() and for the unwrap of a parse error
FromSegs(segs) ==
    IF segs[1] # <<"full">> /\ segs[1] # <<"part">> THEN Panicked
    ELSE IF \E k \in 1..(Len(segs) - 1) : ParseSegs(segs)[k] = -1 THEN Panicked
    ELSE MkForm(IF segs[1] = <<"full">> THEN "Full" ELSE "Part", ParseSegs(segs))

\* a from_code that reads only the last digit of each device
from_codeLastDigit(x) ==
    FromSegs([k \in 1..Len(Split(x, "_")) |->
                IF k = 1 \/ Split(x, "_")[k] = <<>> THEN Split(x, "_")[k]
                ELSE <<Split(x, "_")[k][Len(Split(x, "_")[k])]>>])
\* Form::from_code
from_code(x) == FromSegs(Split(x, "_"))

\* the device ids of the forms encoded: one and two digits
CodeIds == {0, 1, 7, 10, 12}
\* every valid form of at most MaxNdev devices over CodeIds
CodeForms == {MkForm(k, d) : k \in Kinds, d \in UNION {[1..n -> CodeIds] : n \in 1..MaxNdev}}
\* codes Form::code never produces
OtherCodes == {<<>>, <<"_", "0">>, <<"half", "_", "0">>, <<"full", "0">>, <<"Full", "_", "1">>,
               <<"replica", "_", "0">>, <<"full", "_">>, <<"part", "_", "0", "_", "x">>,
               <<"part">>, <<"full", "_", "1", "2", "_", "7">>}

\* f.code() for a valid form f
Encode ==
    /\ pc = "code"
    /\ \E f \in CodeForms : last' = [op |-> "code", form |-> f, code |-> code(f)]
    /\ pc' = "coded"
    /\ UNCHANGED <<history, defs, queue, nodes, name_dict, target, cur, ring>>

\* a code that comes from elsewhere
GivenCode ==
    /\ pc = "code"
    /\ \E c \in OtherCodes : last' = [op |-> "given", form |-> Panicked, code |-> c]
    /\ pc' = "coded"
    /\ UNCHANGED <<history, defs, queue, nodes, name_dict, target, cur, ring>>

\* Form::from_code of the code at hand
Decode ==
    /\ pc = "coded"
    /\ last' = [op |-> "from_code", form |-> last.form, code |-> last.code,
                ret |-> from_code(last.code)]
    /\ pc' = IF from_code(last.code) = Panicked THEN "aborted" ELSE "decoded"
    /\ UNCHANGED <<history, defs, queue, nodes, name_dict, target, cur, ring>>

InitCode ==
    /\ defs = <<>>
    /\ queue = <<>>
    /\ nodes = <<>>
    /\ name_dict = NoAttr
    /\ target = EmptyTarget
    /\ pc = "code"
    /\ cur = [node |-> 0, replica |-> 0]
    /\ last = NoCall
    /\ history = <<>>
    /\ ring = NoRing

NextCode == Encode \/ GivenCode \/ Decode

SpecCode == InitCode /\ [][NextCode]_vars

\* C20: Form::from_code(f.code()) = f for every valid form f, and from_code of a
\* code whose first segment is neither "full" nor "part" fails.
C20_RoundTrip ==
    last.op = "from_code" =>
        /\ last.form # Panicked => last.ret = last.form
        /\ (Split(last.code, "_")[1] \notin {<<"full">>, <<"part">>}) => last.ret = Panicked
\* a Part form with a repeated two-digit device went through code and from_code
C20_Witness ==
    /\ last.op = "from_code"
    /\ last.form = MkForm("Part", <<1, 12, 12>>)
    /\ last.code = <<"part", "_", "1", "_", "1", "2", "_", "1", "2">>
    /\ last.ret = last.form


(***************************************************************************)
(* The attributes that tell replicas from auxiliary operators.             *)
(***************************************************************************)
\* the nodes an operator name is a replica name of: "<name>/replica_<i>"
ReplicaOf(name) ==
    IF Find(name, "/replica") = 0 \/ Find(name, "/replica") + 1 >= Len(name) THEN {}
    ELSE {n \in 1..Len(nodes) :
            /\ nodes[n].raw_node.name = SubSeq(name, 1, Find(name, "/replica") - 1)
            /\ name[Find(name, "/replica") + 1] = "_"
            /\ ParseNat(SubSeq(name, Find(name, "/replica") + 2, Len(name)))
                    \in 0..(ndev(nodes[n].form) - 1)}

\* C21: in every state of the target, an operator emitted by Node::compile (named
\* "<name>/replica_<i>") carries _tge_origin = <name> and _tge_form = the code of
\* the node's form; every other operator, emitted by a builder, carries
\* _tge_belong_to naming the node whose tensor it transforms, and carries
\* neither _tge_origin nor _tge_form.
C21_OriginFormBelongTo ==
    \A k \in 1..Len(pb) :
        IF ReplicaOf(pb[k].name) # {}
        THEN /\ "_tge_origin" \in DOMAIN pb[k].attr
             /\ "_tge_form" \in DOMAIN pb[k].attr
             /\ \A n \in ReplicaOf(pb[k].name) :
                    /\ pb[k].attr["_tge_origin"] = nodes[n].raw_node.name
                    /\ pb[k].attr["_tge_form"] = code(nodes[n].form)
        ELSE /\ "_tge_belong_to" \in DOMAIN pb[k].attr
             /\ \E n \in 1..Len(nodes) : pb[k].attr["_tge_belong_to"] = nodes[n].raw_node.name
             /\ IsPrefix(pb[k].attr["_tge_belong_to"] \o <<"/">>, pb[k].name)
             /\ "_tge_origin" \notin DOMAIN pb[k].attr
             /\ "_tge_form" \notin DOMAIN pb[k].attr
\* a finished pass that emitted replicas and auxiliary operators of both A and B
C21_Witness ==
    /\ pc = "done"
    /\ \E k \in 1..Len(pb) : pb[k].name = <<"C", "/replica", "_", "1">>
    /\ \E k \in 1..Len(pb) : ReplicaOf(pb[k].name) = {} /\ pb[k].attr["_tge_belong_to"] = <<"A">>
    /\ \E k \in 1..Len(pb) : ReplicaOf(pb[k].name) = {} /\ pb[k].attr["_tge_belong_to"] = <<"B">>


(***************************************************************************)
(* The strategy calls resplit or replicate_broadcast on an output of A,    *)
(* the target having four devices: from is A's form, to any form of the    *)
(* builder's kind on the four devices.                                     *)
(***************************************************************************)
BigTable == <<<<"/device:GPU:", "0">>, <<"/device:GPU:", "1">>,
              <<"/device:GPU:", "2">>, <<"/device:GPU:", "3">>>>
BigTarget == [pb      |-> <<>>,
              devices |-> BigTable,
              links   |-> <<100>>,
              paths   |-> [p \in 1..(Len(BigTable) * Len(BigTable)) |-> <<0>>]]
\* sorted device lists over the four devices, the empty one too
BigLists == {d \in UNION {[1..n -> 0..(Len(BigTable) - 1)] : n \in 0..Len(BigTable)} :
                \A k \in 1..(Len(d) - 1) : d[k] <= d[k + 1]}
BigBuilders == {"resplit", "replicate_broadcast"}

\* the state the one builder call leaves, r being what it returned
BigCalled(b, index, from, to, r) ==
    /\ nodes' = r.w.nodes
    /\ target' = r.w.target
    /\ pc' = IF r.w.panic THEN "aborted" ELSE "called"
    /\ last' = [op |-> b, id |-> 0, index |-> index, from |-> from, to |-> to,
                ret |-> r.ret, panic |-> r.w.panic,
                before |-> target.pb, after |-> r.w.target.pb]
    /\ history' = Append(history, [op |-> b, index |-> index, to |-> to])

BigCall ==
    /\ pc = "strategy"
    /\ \E b \in BigBuilders, index \in 0..1, d \in BigLists :
        BigCalled(b, index, nodes[1].form, MkForm(ToKind(b), d),
                  CallBuilder(b, World(get_output(nodes, 0, index), target), 0, index,
                              nodes[1].form, MkForm(ToKind(b), d)))
    /\ UNCHANGED <<defs, queue, name_dict, cur, ring>>

InitBig ==
    /\ defs = CompiledDefs
    /\ queue = <<>>
    /\ \E da \in BigLists, ka \in Kinds :
        /\ nodes = [BuildLoop(defs, <<>>, NoAttr).nodes EXCEPT
                        ![1] = Place(@, da, ka, "Full")]
        /\ name_dict = BuildLoop(defs, <<>>, NoAttr).name_dict
    /\ target = BigTarget
    /\ pc = "strategy"
    /\ cur = [node |-> 0, replica |-> 0]
    /\ last = NoCall
    /\ history = <<>>
    /\ ring = NoRing

NextBig == BigCall

SpecBig == InitBig /\ [][NextBig]_vars


(***************************************************************************)
(* Properties of resplit and replicate_broadcast called on their own.      *)
(***************************************************************************)
\* the greatest common divisor of two positive numbers
Divides(d, n) == n % d = 0
GreatestCommonDivisor(a, b) ==
    CHOOSE d \in 1..a : /\ Divides(d, a) /\ Divides(d, b)
                        /\ \A e \in 1..a : (Divides(e, a) /\ Divides(e, b)) => e <= d
\* the operators of one kind the last call appended, in the order appended
AppendedOps(op) == SelectSeq(Appended, LAMBDA o : o.op = op)
\* the last call was resplit between valid Part forms
ResplitValid ==
    /\ last.op = "resplit"
    /\ valid(last.from) /\ valid(last.to) /\ is_part(last.from) /\ is_part(last.to)
\* g, and the sizes of the blocks of producer replicas and of target devices
LastGcd == GreatestCommonDivisor(ndev(last.from), ndev(last.to))
FromBlock == ndev(last.from) \div LastGcd
ToBlock == ndev(last.to) \div LastGcd

\* C22: for valid Part forms with g = gcd(from.ndev, to.ndev), resplit returns
\* (the subtraction loop ended) and has appended exactly g ConcatV2 operators,
\* the c-th reading the c-th block of from.ndev/g producer replicas, on the
\* device of the block's first replica, and exactly g Split operators with
\* num_split = to.ndev/g, the c-th reading the c-th concat, on its device.
C22_ResplitBlocks ==
    ResplitValid =>
        /\ ~last.panic
        /\ Len(AppendedOps("ConcatV2")) = LastGcd
        /\ Len(AppendedOps("Split")) = LastGcd
        /\ \A c \in 1..Len(AppendedOps("ConcatV2")) :
            /\ AppendedOps("ConcatV2")[c].attr["N"] = FromBlock
            /\ SubSeq(AppendedOps("ConcatV2")[c].input, 1, FromBlock)
                 = [j \in 1..FromBlock |->
                        ReplicaRef(<<1, last.index + 1>>, (c - 1) * FromBlock + j - 1)]
            /\ AppendedOps("ConcatV2")[c].device
                 = target.devices[last.from.devices[(c - 1) * FromBlock + 1] + 1]
        /\ \A c \in 1..Len(AppendedOps("Split")) :
            /\ AppendedOps("Split")[c].attr["num_split"] = ToBlock
            /\ AppendedOps("Split")[c].input[2] = AppendedOps("ConcatV2")[c].name
            /\ AppendedOps("Split")[c].device = AppendedOps("ConcatV2")[c].device
\* four replicas on four devices were resplit into two parts: blocks of two
C22_Witness ==
    /\ ResplitValid
    /\ last.from.devices = <<0, 1, 2, 3>>
    /\ ndev(last.to) = 2
    /\ Len(AppendedOps("ConcatV2")) = 2
    /\ Len(AppendedOps("ConcatV2")[2].input) = 3


\* the last call resplit a tensor from part_0_1_2_3 to part_0_2
Resplit4To2 ==
    /\ last.op = "resplit"
    /\ last.from = MkForm("Part", <<0, 1, 2, 3>>)
    /\ last.to = MkForm("Part", <<0, 2>>)
\* 2 concats, each over 2 replicas, and 2 splits, each with num_split = 1
TwoConcatsTwoSplits ==
    /\ Len(AppendedOps("ConcatV2")) = 2
    /\ \A c \in 1..2 : AppendedOps("ConcatV2")[c].attr["N"] = 2
    /\ Len(AppendedOps("Split")) = 2
    /\ \A c \in 1..2 : AppendedOps("Split")[c].attr["num_split"] = 1
\* the operators appended that are not Const operators
AppendedNotConst == SelectSeq(Appended, LAMBDA o : o.op # "Const")

\* C23 as stated: resplitting from part_0_1_2_3 to part_0_2 emits 2 concats and
\* 2 splits, for a total of 6 auxiliary operators plus 4 Const operators.
C23_SixPlusFour ==
    Resplit4To2 =>
        /\ TwoConcatsTwoSplits
        /\ Len(AppendedNotConst) = 6
        /\ Len(AppendedOps("Const")) = 4

\* C23: resplitting from part_0_1_2_3 to part_0_2 emits 2 concats (each over 2
\* replicas) and 2 splits (each with num_split = 1) and nothing else but 4 Const
\* operators: 4 auxiliary operators plus 4 Const operators, 8 in all.
C23_FourPlusFour ==
    Resplit4To2 =>
        /\ ~last.panic
        /\ TwoConcatsTwoSplits
        /\ Len(AppendedNotConst) = 4
        /\ Len(AppendedOps("Const")) = 4
        /\ Len(Appended) = 8
C23_Witness == Resplit4To2 /\ last.index = 0 /\ Len(last.ret) = 2


\* the last call was replicate_broadcast between valid Full forms
BroadcastValid ==
    /\ last.op = "replicate_broadcast"
    /\ valid(last.from) /\ valid(last.to) /\ is_full(last.from) /\ is_full(last.to)
\* the replica of the producer that device d reads: the first one placed on d,
\* replica 0 when none is
ReplicaRead(d) ==
    IF \E p \in 1..ndev(last.from) : last.from.devices[p] = d
    THEN (CHOOSE p \in 1..ndev(last.from) :
            /\ last.from.devices[p] = d
            /\ \A q \in 1..(p - 1) : last.from.devices[q] # d) - 1
    ELSE 0

\* C24: replicate_broadcast between valid Full forms, from being the producer's
\* form, appends nothing to the target and returns, for each device d of the
\* target form in order, "<producer>/replica_<p>:<port>" with p the first
\* position of d in the producer's device list, or 0 when d is not in it.
C24_BroadcastReusesReplicas ==
    BroadcastValid =>
        /\ ~last.panic
        /\ last.after = last.before
        /\ target.pb = last.before
        /\ last.ret = [k \in 1..ndev(last.to) |->
                          ReplicaRef(<<1, last.index + 1>>, ReplicaRead(last.to.devices[k]))]
\* a device the producer is not on reads replica 0, one it is on twice the first of them
C24_Witness ==
    /\ BroadcastValid
    /\ last.from.devices = <<0, 2, 2>>
    /\ last.to.devices = <<1, 2>>
    /\ last.index = 1
    /\ last.ret = << <<"A", "/replica", "_", "0", ":", "1">>, <<"A", "/replica", "_", "1", ":", "1">> >>

====
